---- MODULE Spec2Model ----
(***************************************************************************)
(* A model of the scheduling core and the score solver of the PJSK car     *)
(* bot (src/bot.py).                                                       *)
(*                                                                         *)
(* Units.  Time is counted in ticks from 00:00 of day 0, TicksPerHour      *)
(* ticks to the hour.  A bonus is an integer number of hundredths          *)
(* (2.40 is 240).  avg_bonus is kept in units of 1/600, so that the mean   *)
(* of one, two or three bonuses is an integer.                             *)
(* A Python None (or an absent key holding a person) is the empty          *)
(* sequence <<>>, a present person p is <<p>>.                             *)
(***************************************************************************)
EXTENDS Integers, Sequences, FiniteSets, TLC

VARIABLES
    now,            \* datetime.now(), in ticks
    members,        \* bot_data["members"]: uid -> member record, or NoMember
    schedule_open,  \* bot_data["settings"]["schedule_open"]
    schedule,       \* bot_data["schedule"]: day -> hour -> shift
    outcome,        \* what the last handler told its caller
    ops,            \* number of handlers run so far
    admin_ops,      \* number of administrator commands among them
    tbl,            \* ScoreTable.scores, descending (score solver)
    target,         \* the gap handed to find_solution
    max_plays,      \* find_solution's max_plays
    solution,       \* what find_solution returned
    solver_pc,      \* "idle", "ready" (inputs chosen) or "done"
    SONG_DB,        \* render_funcs.SONG_DB, the songs find_push_plans scans
    target_ep_gap,  \* find_push_plans' target_ep_gap
    border_speed,   \* find_push_plans' border_speed (points per hour)
    plans,          \* what find_push_plans returned
    push_pc,        \* "idle", "ready" (inputs chosen) or "done"
    ranking_history,\* ranking_history: [event_name, records]
    snap_result,    \* how the last record_ranking_snapshot ended
    chart,          \* what the last chart request answered
    tasks,          \* the handlers in flight: request, position, reply
    order,          \* the requests in the order their handlers ran
    probe           \* what the last call of is_signup_closed worked out

vars == <<now, members, schedule_open, schedule, outcome, ops, admin_ops,
          tbl, target, max_plays, solution, solver_pc,
          SONG_DB, target_ep_gap, border_speed, plans, push_pc,
          ranking_history, snap_result, chart, tasks, order, probe>>

scheduleVars == <<now, members, schedule_open, schedule, outcome, ops, admin_ops>>

solverVars == <<tbl, target, max_plays, solution, solver_pc>>

pushVars == <<SONG_DB, target_ep_gap, border_speed, plans, push_pc>>

(* the state of the parts beside the schedule and the score solver *)
rankingVars == <<ranking_history, snap_result, chart>>

taskVars == <<tasks, order>>

otherVars == <<pushVars, rankingVars, taskVars, probe>>

-----------------------------------------------------------------------------
(* Bounds *)

NumMembers == 2
TicksPerHour == 1
FirstHour == 23
NumHours == 2
StartHour == 21
EndHour == 22
MaxOps == 3
MaxAdminOps == 1
MaxEditFields == 1
MaxTarget == 40
MaxPlaysBound == 3

(* Program constants *)

HoursPerDay == 24
RollBackHours == 12
CloseHours == 1
CloseHoursS6 == 2
MaxPositions == 3
DefaultMaxPlays == 50

-----------------------------------------------------------------------------
(* Small helpers *)

None == <<>>
Some(x) == <<x>>

Min(a, b) == IF a <= b THEN a ELSE b

RECURSIVE SumSeq(_)
SumSeq(s) == IF s = <<>> THEN 0 ELSE Head(s) + SumSeq(Tail(s))

(* the registered participants; Stranger is a user with no registry entry *)
Uids == 1..NumMembers
Stranger == 0
Users == Uids \cup {Stranger}
NoMember == [registered |-> FALSE]

TicksPerDay == HoursPerDay * TicksPerHour

-----------------------------------------------------------------------------
(* Time *)

get_today(t) == t \div TicksPerDay

parse_time_range(a, b) ==
    LET b2 == IF b <= a THEN b + 24 ELSE b
    IN  [i \in 1..(b2 - a) |-> (a + i - 1) % 24]

(* st of is_signup_closed: today at hour h, rolled to tomorrow when that is
   more than 12 hours ago *)
SlotStart(h, t) ==
    LET st == get_today(t) * TicksPerDay + h * TicksPerHour
    IN  IF st < t - RollBackHours * TicksPerHour THEN st + TicksPerDay ELSE st

(* hu of is_signup_closed, in ticks *)
HoursUntil(h, t) == SlotStart(h, t) - t

has_s6(h, t, sched) ==
    LET today == get_today(t)
    IN  /\ today \in DOMAIN sched
        /\ h \in DOMAIN sched[today]
        /\ sched[today][h].p2 # None

(* mutant: the 1-hour boundary taken as exclusive *)
is_signup_closed_Exclusive(h, t, sched) ==
    LET hu == HoursUntil(h, t)
    IN  IF hu < CloseHours * TicksPerHour THEN <<TRUE, "1h">>
        ELSE IF hu <= CloseHoursS6 * TicksPerHour /\ has_s6(h, t, sched)
             THEN <<TRUE, "2h_s6">>
        ELSE <<FALSE, "">>

is_signup_closed(h, t, sched) ==
    LET hu == HoursUntil(h, t)
    IN  IF hu <= CloseHours * TicksPerHour THEN <<TRUE, "1h">>
        ELSE IF hu <= CloseHoursS6 * TicksPerHour /\ has_s6(h, t, sched)
             THEN <<TRUE, "2h_s6">>
        ELSE <<FALSE, "">>

-----------------------------------------------------------------------------
(* auto_assign_schedule *)

(* round(b*50) of Python for b = c/100: exact for even c; for odd c the
   product is a half and rounds to even, except where the float product is
   not exactly the half *)
FloatBelowHalf == {203, 207, 251, 255}
FloatAboveHalf == {245, 249}

Round50(c) ==
    IF c % 2 = 0 THEN c \div 2
    ELSE IF c \in FloatBelowHalf THEN (c - 1) \div 2
    ELSE IF c \in FloatAboveHalf THEN (c + 1) \div 2
    ELSE IF ((c - 1) \div 2) % 2 = 0 THEN (c - 1) \div 2 ELSE (c + 1) \div 2

(* mutant: the key is the bucket alone *)
skLeq_BucketOnly(x, y) == Round50(x.bonus) >= Round50(y.bonus)

(* mutant: the key compares the bonus itself, not its bucket *)
skLeq_RawBonus(x, y) ==
    \/ x.bonus > y.bonus
    \/ /\ x.bonus = y.bonus
       /\ x.registered_at <= y.registered_at

(* sk(x) <= sk(y) for the key (-round(b*50)/50, registered_at) *)
skLeq(x, y) ==
    \/ Round50(x.bonus) > Round50(y.bonus)
    \/ /\ Round50(x.bonus) = Round50(y.bonus)
       /\ x.registered_at <= y.registered_at

(* sorted(applicants, key=sk): stable *)
RECURSIVE InsertSorted(_, _)
InsertSorted(sorted, x) ==
    IF sorted = <<>> THEN <<x>>
    ELSE LET last == sorted[Len(sorted)]
         IN  IF skLeq(last, x) THEN Append(sorted, x)
             ELSE Append(InsertSorted(SubSeq(sorted, 1, Len(sorted) - 1), x), last)

RECURSIVE SortApplicants(_)
SortApplicants(apps) ==
    IF apps = <<>> THEN <<>>
    ELSE InsertSorted(SortApplicants(SubSeq(apps, 1, Len(apps) - 1)), apps[Len(apps)])

IsS6(a) == a.role = "s6"
IsSupport(a) == a.role = "support"
(* mutant: every applicant that is not a support is a pusher candidate *)
IsPusher_NotSupport(a) == a.role # "support"

IsPusher(a) == a.role \notin {"s6", "support"}

accsOf(app) == IF app.multi \in {1, 2, 3} THEN app.multi ELSE 1

(* ab[ai] *)
abOf(app, ai) ==
    IF ai = 1 THEN app.bonus
    ELSE IF ai = 2 THEN (IF app.bonus_2 # 0 THEN app.bonus_2 ELSE app.bonus)
    ELSE (IF app.bonus_3 # 0 THEN app.bonus_3 ELSE app.bonus)

(* mutant: every candidate takes one position, whatever it declared *)
RECURSIVE FillPushers_OneEach(_, _, _)
FillPushers_OneEach(psa, i, filled) ==
    IF i > Len(psa) \/ Len(filled) >= MaxPositions THEN filled
    ELSE FillPushers_OneEach(psa, i + 1, Append(filled, psa[i]))

(* the loop "for app in psa": filled is the sequence of occupied positions *)
RECURSIVE FillPushers(_, _, _)
FillPushers(psa, i, filled) ==
    IF i > Len(psa) \/ Len(filled) >= MaxPositions THEN filled
    ELSE LET app == psa[i]
             n == Min(accsOf(app), MaxPositions - Len(filled))
             new == [ai \in 1..n |->
                        [app EXCEPT !.bonus = abOf(app, ai),
                                    !.acct = IF ai > 1 THEN ai ELSE app.acct]]
         IN  FillPushers(psa, i + 1, filled \o new)

PosOf(filled, k) == IF Len(filled) >= k THEN Some(filled[k]) ELSE None

bonusesOf(sh) ==
    (IF sh.p3 # None THEN <<sh.p3[1].bonus>> ELSE <<>>) \o
    (IF sh.p4 # None THEN <<sh.p4[1].bonus>> ELSE <<>>) \o
    (IF sh.p5 # None THEN <<sh.p5[1].bonus>> ELSE <<>>)

(* sum(bs)/len(bs) if bs else 0, in units of 1/600 *)
MeanBonus(bs) == IF bs = <<>> THEN 0 ELSE (SumSeq(bs) * 6) \div Len(bs)

EmptyShift ==
    [car_type |-> "shrimp", p1 |-> "omega", p2 |-> None, p3 |-> None,
     p4 |-> None, p5 |-> None, support |-> None, avg_bonus |-> 0,
     note |-> "", applicants |-> <<>>]

(* the shift built for a non-empty applicant list (the applicants field is
   set by the caller) *)
auto_assign_schedule(applicants) ==
    LET sa == SortApplicants(applicants)
        s6a == SelectSeq(sa, IsS6)
        spa == SelectSeq(sa, IsSupport)
        psa == SelectSeq(sa, IsPusher)
        s6 == IF s6a = <<>> THEN None
              ELSE Some(IF s6a[1].s6_bonus > 0
                        THEN [s6a[1] EXCEPT !.bonus = s6a[1].s6_bonus]
                        ELSE s6a[1])
        filled == FillPushers(psa, 1, <<>>)
        sh == [EmptyShift EXCEPT !.p2 = s6,
                                 !.support = IF spa = <<>> THEN None ELSE Some(spa[1]),
                                 !.p3 = PosOf(filled, 1),
                                 !.p4 = PosOf(filled, 2),
                                 !.p5 = PosOf(filled, 3)]
    IN  [sh EXCEPT !.avg_bonus = MeanBonus(bonusesOf(sh))]

(* mutant: the refresh stores the applicant list in reverse order *)
refresh_schedule_Reversed(sched, dt) ==
    IF dt \notin DOMAIN sched THEN sched
    ELSE [sched EXCEPT ![dt] =
            [h \in DOMAIN sched[dt] |->
                IF sched[dt][h].applicants # <<>>
                THEN [auto_assign_schedule(sched[dt][h].applicants)
                        EXCEPT !.applicants =
                            [i \in 1..Len(sched[dt][h].applicants) |->
                                sched[dt][h].applicants[Len(sched[dt][h].applicants) + 1 - i]]]
                ELSE sched[dt][h]]]

(* refresh_schedule(dt) *)
refresh_schedule(sched, dt) ==
    IF dt \notin DOMAIN sched THEN sched
    ELSE [sched EXCEPT ![dt] =
            [h \in DOMAIN sched[dt] |->
                IF sched[dt][h].applicants # <<>>
                THEN [auto_assign_schedule(sched[dt][h].applicants)
                        EXCEPT !.applicants = sched[dt][h].applicants]
                ELSE sched[dt][h]]]

-----------------------------------------------------------------------------
(* Inputs *)

(* the member records a registry entry is drawn from *)
Profiles ==
    { [registered |-> TRUE, bonus |-> 200, bonus_2 |-> 0, bonus_3 |-> 0,
       s6_bonus |-> 0, multi |-> 1],
      [registered |-> TRUE, bonus |-> 201, bonus_2 |-> 240, bonus_3 |-> 0,
       s6_bonus |-> 250, multi |-> 2],
      [registered |-> TRUE, bonus |-> 240, bonus_2 |-> 0, bonus_3 |-> 118,
       s6_bonus |-> 0, multi |-> 3] }

(* the registries a run starts from: the first member has the first
   profile, the others share one of the other profiles *)
FirstProfile == CHOOSE p \in Profiles : p.bonus = 200
Registries ==
    { r \in [Users -> Profiles \cup {NoMember}] :
        /\ r[Stranger] = NoMember
        /\ r[1] = FirstProfile
        /\ \A u \in Uids : u > 1 => r[u] \in Profiles \ {FirstProfile}
        /\ \A u \in Uids : u > 2 => r[u] = r[2] }

(* the hour labels the requests are about *)
HourLabels == { (FirstHour + i) % 24 : i \in 0..(NumHours - 1) }

(* a request "a-b"; BadRange is a text the pattern does not match *)
BadRange == <<-1, -1>>
RangeInputs ==
    { <<(FirstHour + c[1]) % 24, (FirstHour + c[1] + c[2]) % 24>> :
        c \in { d \in (0..(NumHours - 1)) \X (1..NumHours) : d[1] + d[2] <= NumHours } }
    \cup {BadRange}

HoursOf(rng) == IF rng = BadRange THEN <<>> ELSE parse_time_range(rng[1], rng[2])

-----------------------------------------------------------------------------
(* Sign-up and cancel *)

NoOutcome == [uid |-> 0, kind |-> "none", hours |-> <<>>,
              registered |-> <<>>, reasons |-> <<>>]

(* kind is the reply the caller gets; hours are the hours asked for *)
Outcome(uid, kind, hours, registered, reasons) ==
    [uid |-> uid, kind |-> kind, hours |-> hours,
     registered |-> registered, reasons |-> reasons]

(* bot_data.setdefault("schedule",{}).setdefault(today,{}) *)
WithDay(sched, d) ==
    IF d \in DOMAIN sched THEN sched
    ELSE [x \in DOMAIN sched \cup {d} |->
            IF x = d THEN [h \in {} |-> EmptyShift] ELSE sched[x]]

(* mutant: only the first applicant of the slot is compared *)
Holds_FirstOnly(sched, d, h, uid) ==
    /\ d \in DOMAIN sched
    /\ h \in DOMAIN sched[d]
    /\ sched[d][h].applicants # <<>>
    /\ sched[d][h].applicants[1].user_id = uid

Holds(sched, d, h, uid) ==
    /\ d \in DOMAIN sched
    /\ h \in DOMAIN sched[d]
    /\ \E k \in 1..Len(sched[d][h].applicants) :
          sched[d][h].applicants[k].user_id = uid

(* the applicant record built from the member's registry entry *)
MakeApp(uid, m, role, multi, t) ==
    [user_id |-> uid, name |-> uid, acct |-> 0, bonus |-> m.bonus,
     bonus_2 |-> m.bonus_2, bonus_3 |-> m.bonus_3, s6_bonus |-> m.s6_bonus,
     multi |-> multi, role |-> role, registered_at |-> t]

(* the hours of a request that is_signup_closed reports closed, with reasons *)
ClosedReasons(sched, hours, t) ==
    LET closedSeq == SelectSeq([i \in 1..Len(hours) |->
                        <<hours[i], is_signup_closed(hours[i], t, sched)>>],
                        LAMBDA e : e[2][1])
    IN  [i \in 1..Len(closedSeq) |-> <<closedSeq[i][1], closedSeq[i][2][2]>>]

(* mutant: the loop does not ask is_signup_closed *)
RECURSIVE RegisterHours_NoClosing(_, _, _, _, _, _)
RegisterHours_NoClosing(sched, hours, i, app, t, registered) ==
    IF i > Len(hours) THEN [sched |-> sched, registered |-> registered]
    ELSE LET h == hours[i]
             today == get_today(t)
             day == sched[today]
             slot == IF h \in DOMAIN day THEN day[h] ELSE EmptyShift
         IN  IF Holds(sched, today, h, app.user_id)
             THEN RegisterHours_NoClosing(sched, hours, i + 1, app, t, registered)
             ELSE RegisterHours_NoClosing(
                    [sched EXCEPT ![today] =
                       [x \in DOMAIN day \cup {h} |->
                          IF x = h
                          THEN [slot EXCEPT !.applicants = Append(@, app)]
                          ELSE day[x]]],
                    hours, i + 1, app, t, Append(registered, h))

(* the loop "for h in hours": append the applicant to every hour that is
   open and that the participant does not hold yet *)
RECURSIVE RegisterHours(_, _, _, _, _, _)
RegisterHours(sched, hours, i, app, t, registered) ==
    IF i > Len(hours) THEN [sched |-> sched, registered |-> registered]
    ELSE LET h == hours[i]
             today == get_today(t)
         IN  IF is_signup_closed(h, t, sched)[1]
             THEN RegisterHours(sched, hours, i + 1, app, t, registered)
             ELSE LET day == sched[today]
                      slot == IF h \in DOMAIN day THEN day[h] ELSE EmptyShift
                  IN  IF Holds(sched, today, h, app.user_id)
                      THEN RegisterHours(sched, hours, i + 1, app, t, registered)
                      ELSE RegisterHours(
                             [sched EXCEPT ![today] =
                                [x \in DOMAIN day \cup {h} |->
                                   IF x = h
                                   THEN [slot EXCEPT !.applicants = Append(@, app)]
                                   ELSE day[x]]],
                             hours, i + 1, app, t, Append(registered, h))

(* the part the three sign-up paths share, after their validity checks;
   path is "modal", "cmd" or "message" *)
SignupBody(path, uid, role, multi, hours) ==
    LET today == get_today(now)
        sched0 == WithDay(schedule, today)
        reasons == ClosedReasons(sched0, hours, now)
        app == MakeApp(uid, members[uid], role, multi, now)
        res == RegisterHours(sched0, hours, 1, app, now, <<>>)
    IN  IF path = "modal" /\ Len(reasons) = Len(hours)
        THEN /\ schedule' = sched0
             /\ outcome' = Outcome(uid, "all_closed", hours, <<>>, reasons)
        ELSE IF res.registered # <<>>
        THEN /\ schedule' = refresh_schedule(res.sched, today)
             /\ outcome' = Outcome(uid, "registered", hours, res.registered, <<>>)
        ELSE /\ schedule' = res.sched
             /\ outcome' = Outcome(uid,
                              IF path = "modal" THEN "dup"
                              ELSE IF path = "cmd" THEN "dup_or_closed"
                              ELSE "silent",
                              hours, <<>>, <<>>)

(* the checks every sign-up path makes first *)
Signup(path, uid, role, multi, rng) ==
    /\ ops < MaxOps
    /\ ops' = ops + 1
    /\ UNCHANGED <<now, members, schedule_open, admin_ops, solverVars, otherVars>>
    /\ IF ~members[uid].registered
       THEN /\ outcome' = Outcome(uid, "not_member", <<>>, <<>>, <<>>)
            /\ UNCHANGED schedule
       ELSE IF ~schedule_open
       THEN /\ outcome' = Outcome(uid, "not_open", <<>>, <<>>, <<>>)
            /\ UNCHANGED schedule
       ELSE IF HoursOf(rng) = <<>>
       THEN /\ outcome' = Outcome(uid, "bad_format", <<>>, <<>>, <<>>)
            /\ UNCHANGED schedule
       ELSE SignupBody(path, uid, role, multi, HoursOf(rng))

(* SignupScheduleModal.on_submit: role and multi come from the button *)
SignupScheduleModal_on_submit ==
    \E uid \in Users, rng \in RangeInputs,
       btn \in {<<"pusher", 1>>, <<"s6", 1>>, <<"pusher", 2>>, <<"pusher", 3>>} :
        Signup("modal", uid, btn[1], btn[2], rng)

(* signup_cmd: multi comes from the registry *)
signup_cmd ==
    \E uid \in Users, rng \in RangeInputs, role \in {"pusher", "s6", "support"} :
        Signup("cmd", uid, role,
               IF members[uid].registered THEN members[uid].multi ELSE 1, rng)

(* on_message: /s6 is the alt role, the other shortcuts are pushers *)
on_message ==
    \E uid \in Users, rng \in RangeInputs, cmd \in {"/pusher", "/s6", "/double", "/triple"} :
        Signup("message", uid,
               IF cmd = "/s6" THEN "s6" ELSE "pusher",
               IF cmd = "/double" THEN 2
               ELSE IF cmd = "/triple" THEN 3
               ELSE IF members[uid].registered THEN members[uid].multi ELSE 1,
               rng)

(* the loop of cancel_cmd *)
RECURSIVE CancelHours(_, _, _, _, _, _)
CancelHours(sched, hours, i, uid, today, cancelled) ==
    IF i > Len(hours) THEN [sched |-> sched, cancelled |-> cancelled]
    ELSE LET h == hours[i]
         IN  IF today \in DOMAIN sched /\ h \in DOMAIN sched[today]
             THEN LET apps == sched[today][h].applicants
                      kept == SelectSeq(apps, LAMBDA a : a.user_id # uid)
                  IN  CancelHours(
                         [sched EXCEPT ![today][h].applicants = kept],
                         hours, i + 1, uid, today,
                         IF Len(kept) < Len(apps) THEN Append(cancelled, h)
                         ELSE cancelled)
             ELSE CancelHours(sched, hours, i + 1, uid, today, cancelled)

cancel_cmd ==
    \E uid \in Users, rng \in RangeInputs :
        LET today == get_today(now)
            hours == HoursOf(rng)
            res == CancelHours(schedule, hours, 1, uid, today, <<>>)
        IN  /\ ops < MaxOps
            /\ ops' = ops + 1
            /\ schedule' = IF res.cancelled # <<>>
                           THEN refresh_schedule(res.sched, today)
                           ELSE res.sched
            /\ outcome' = Outcome(uid,
                             IF res.cancelled # <<>> THEN "cancelled" ELSE "no_record",
                             hours, res.cancelled, <<>>)
            /\ UNCHANGED <<now, members, schedule_open, admin_ops, solverVars, otherVars>>

(* the clock advances *)
Tick ==
    /\ now < EndHour * TicksPerHour
    /\ now' = now + 1
    /\ UNCHANGED <<members, schedule_open, schedule, outcome, ops, admin_ops, solverVars, otherVars>>

-----------------------------------------------------------------------------
(* Administrator commands *)

(* an administrator command is one of the handlers run *)
AdminStep ==
    /\ ops < MaxOps
    /\ admin_ops < MaxAdminOps
    /\ ops' = ops + 1
    /\ admin_ops' = admin_ops + 1

(* fm(name) of EditScheduleModal.on_submit: "" for a field left empty, a uid
   for a name that matches that member, 0 for a name that matches no member *)
EmptyField == -1
GuestName == 0

fm(name) ==
    IF name = EmptyField THEN None
    ELSE IF name \in Uids /\ members[name].registered
    THEN Some([user_id |-> name, name |-> name, acct |-> 0,
               bonus |-> members[name].bonus, bonus_2 |-> members[name].bonus_2,
               bonus_3 |-> members[name].bonus_3,
               s6_bonus |-> members[name].s6_bonus,
               multi |-> members[name].multi, role |-> "", registered_at |-> 0])
    ELSE Some([user_id |-> 0, name |-> name, acct |-> 0, bonus |-> 0,
               bonus_2 |-> 0, bonus_3 |-> 0, s6_bonus |-> 0, multi |-> 0,
               role |-> "", registered_at |-> 0])

(* the four name fields of the edit form, at most MaxEditFields of them filled *)
EditForms ==
    { f \in [{"p2", "p3", "p4", "p5"} -> {EmptyField, GuestName, 1}] :
        /\ f["p5"] = EmptyField
        /\ Cardinality({k \in DOMAIN f : f[k] # EmptyField}) <= MaxEditFields }

(* the hour text of the edit form: a range, or a single hour *)
EditHourInputs == RangeInputs \cup { <<FirstHour % 24, FirstHour % 24>> }

EditHoursOf(raw) ==
    IF raw = BadRange THEN <<>>
    ELSE IF raw[1] = raw[2] THEN <<raw[1]>>
    ELSE parse_time_range(raw[1], raw[2])

(* mutant: the edit leaves avg_bonus as it was *)
EditShift_StaleAverage(sh, f) ==
    [sh EXCEPT !.p2 = IF fm(f["p2"]) # None THEN fm(f["p2"]) ELSE @,
               !.p3 = IF fm(f["p3"]) # None THEN fm(f["p3"]) ELSE @,
               !.p4 = IF fm(f["p4"]) # None THEN fm(f["p4"]) ELSE @,
               !.p5 = IF fm(f["p5"]) # None THEN fm(f["p5"]) ELSE @]

(* one pass of the loop "for hour in hours" *)
EditShift(sh, f) ==
    LET s1 == [sh EXCEPT !.p2 = IF fm(f["p2"]) # None THEN fm(f["p2"]) ELSE @,
                         !.p3 = IF fm(f["p3"]) # None THEN fm(f["p3"]) ELSE @,
                         !.p4 = IF fm(f["p4"]) # None THEN fm(f["p4"]) ELSE @,
                         !.p5 = IF fm(f["p5"]) # None THEN fm(f["p5"]) ELSE @]
    IN  [s1 EXCEPT !.avg_bonus = MeanBonus(bonusesOf(s1))]

RECURSIVE EditHours(_, _, _, _)
EditHours(day, hours, i, f) ==
    IF i > Len(hours) THEN day
    ELSE LET h == hours[i]
             sh == IF h \in DOMAIN day THEN day[h] ELSE EmptyShift
         IN  EditHours([x \in DOMAIN day \cup {h} |->
                           IF x = h THEN EditShift(sh, f) ELSE day[x]],
                       hours, i + 1, f)

EditScheduleModal_on_submit ==
    \E raw \in EditHourInputs, f \in EditForms :
        LET today == get_today(now)
            sched0 == WithDay(schedule, today)
            hours == EditHoursOf(raw)
        IN  /\ AdminStep
            /\ IF hours = <<>>
               THEN /\ schedule' = sched0
                    /\ outcome' = Outcome(0, "edit_bad_format", <<>>, <<>>, <<>>)
               ELSE /\ schedule' = [sched0 EXCEPT ![today] =
                                       EditHours(sched0[today], hours, 1, f)]
                    /\ outcome' = Outcome(0, "edited", hours, <<>>, <<>>)
            /\ UNCHANGED <<now, members, schedule_open, solverVars, otherVars>>

(* confirm_cmd: update(auto_assign_schedule(...)) for every slot of today; an
   empty applicant list yields {} and the update changes nothing *)
confirm_cmd ==
    LET today == get_today(now)
    IN  /\ AdminStep
        /\ IF today \notin DOMAIN schedule
           THEN /\ outcome' = Outcome(0, "confirm_no_signup", <<>>, <<>>, <<>>)
                /\ UNCHANGED schedule
           ELSE /\ schedule' = [schedule EXCEPT ![today] =
                      [h \in DOMAIN schedule[today] |->
                          IF schedule[today][h].applicants # <<>>
                          THEN [auto_assign_schedule(schedule[today][h].applicants)
                                  EXCEPT !.applicants = schedule[today][h].applicants]
                          ELSE schedule[today][h]]]
                /\ outcome' = Outcome(0, "confirmed", <<>>, <<>>, <<>>)
        /\ UNCHANGED <<now, members, schedule_open, solverVars, otherVars>>

(* clear_cmd *)
clear_cmd ==
    LET today == get_today(now)
    IN  /\ AdminStep
        /\ schedule' = [d \in DOMAIN schedule \ {today} |-> schedule[d]]
        /\ outcome' = Outcome(0, "cleared", <<>>, <<>>, <<>>)
        /\ UNCHANGED <<now, members, schedule_open, solverVars, otherVars>>

(* make_person of import_csv_cmd: cell is <<name, bonus column>> *)
make_person(cell, role) ==
    IF cell[1] = EmptyField THEN None
    ELSE IF cell[1] \in Uids /\ members[cell[1]].registered
    THEN LET m == members[cell[1]]
         IN  Some([user_id |-> cell[1], name |-> cell[1], acct |-> 0,
                   bonus |-> IF cell[2] = 0 \/ cell[2] < 100 THEN m.bonus ELSE cell[2],
                   bonus_2 |-> m.bonus_2, bonus_3 |-> m.bonus_3,
                   s6_bonus |-> m.s6_bonus, multi |-> m.multi, role |-> role,
                   registered_at |-> 0])
    ELSE Some([user_id |-> 0, name |-> cell[1], acct |-> 0, bonus |-> cell[2],
               bonus_2 |-> 0, bonus_3 |-> 0, s6_bonus |-> 0, multi |-> 0,
               role |-> role, registered_at |-> 0])

(* the rows an imported sheet is drawn from: the cells of P2, P3 and P4 *)
NoCell == <<EmptyField, 0>>
ImportRows ==
    { <<NoCell, NoCell, NoCell>>,
      <<<<1, 0>>, <<GuestName, 150>>, NoCell>>,
      <<NoCell, <<1, 0>>, <<GuestName, 150>>>> }

(* import_csv_cmd with a sheet of one row for today: the slot is replaced *)
import_csv_cmd ==
    \E h \in HourLabels, row \in ImportRows :
        LET dt == get_today(now)
            sched0 == WithDay(schedule, dt)
            sh == [EmptyShift EXCEPT !.p2 = make_person(row[1], "s6"),
                                     !.p3 = make_person(row[2], "pusher"),
                                     !.p4 = make_person(row[3], "pusher")]
            shift == [sh EXCEPT !.avg_bonus = MeanBonus(bonusesOf(sh))]
        IN  /\ AdminStep
            /\ schedule' = [sched0 EXCEPT ![dt] =
                               [x \in DOMAIN sched0[dt] \cup {h} |->
                                   IF x = h THEN shift ELSE sched0[dt][x]]]
            /\ outcome' = Outcome(0, "imported", <<h>>, <<>>, <<>>)
            /\ UNCHANGED <<now, members, schedule_open, solverVars, otherVars>>

(* open_cmd and close_schedule_cmd *)
open_cmd ==
    /\ AdminStep
    /\ schedule_open' = TRUE
    /\ outcome' = Outcome(0, "opened", <<>>, <<>>, <<>>)
    /\ UNCHANGED <<now, members, schedule, solverVars, otherVars>>

close_schedule_cmd ==
    /\ AdminStep
    /\ schedule_open' = FALSE
    /\ outcome' = Outcome(0, "closed", <<>>, <<>>, <<>>)
    /\ UNCHANGED <<now, members, schedule, solverVars, otherVars>>

-----------------------------------------------------------------------------
(* find_solution *)

(* the score values a catalog is drawn from *)
ScoreVals == {2, 3, 5, 9, 14}

(* mutant: the catalog is sorted ascending *)
RECURSIVE Descending_Ascending(_)
Descending_Ascending(S) ==
    IF S = {} THEN <<>>
    ELSE LET m == CHOOSE x \in S : \A y \in S : x <= y
         IN  <<m>> \o Descending_Ascending(S \ {m})

(* sorted(score_map.keys(), reverse=True) *)
RECURSIVE Descending(_)
Descending(S) ==
    IF S = {} THEN <<>>
    ELSE LET m == CHOOSE x \in S : \A y \in S : y <= x
         IN  <<m>> \o Descending(S \ {m})

score_set(scores) == { scores[i] : i \in 1..Len(scores) }

(* ms(s,p); the range, bonus and energy of the score are carried along *)
ms(s, p) == [score |-> s, plays |-> p, total |-> s * p]

(* the first loop: one value *)
RECURSIVE SinglePass(_, _, _, _)
SinglePass(scores, i, t, mp) ==
    IF i > Len(scores) THEN None
    ELSE LET sc == scores[i]
         IN  IF sc <= t /\ t % sc = 0 /\ t \div sc <= mp
             THEN <<ms(sc, t \div sc)>>
             ELSE SinglePass(scores, i + 1, t, mp)

(* the loop over p1, downwards *)
RECURSIVE PlaysLoop(_, _, _, _)
PlaysLoop(scores, s1, p1, t) ==
    IF p1 < 1 THEN None
    ELSE LET rem == t - s1 * p1
         IN  IF rem = 0 THEN <<ms(s1, p1)>>
             ELSE IF rem \in score_set(scores) THEN <<ms(s1, p1), ms(rem, 1)>>
             ELSE PlaysLoop(scores, s1, p1 - 1, t)

(* mutant: p1 starts at target // s1, not capped by max_plays *)
RECURSIVE PairPass_Uncapped(_, _, _, _)
PairPass_Uncapped(scores, i, t, mp) ==
    IF i > Len(scores) THEN None
    ELSE LET s1 == scores[i]
             found == IF s1 > t THEN None
                      ELSE PlaysLoop(scores, s1, t \div s1, t)
         IN  IF found # None THEN found ELSE PairPass_Uncapped(scores, i + 1, t, mp)

(* the second loop: two values *)
RECURSIVE PairPass(_, _, _, _)
PairPass(scores, i, t, mp) ==
    IF i > Len(scores) THEN None
    ELSE LET s1 == scores[i]
             found == IF s1 > t THEN None
                      ELSE PlaysLoop(scores, s1, Min(t \div s1, mp), t)
         IN  IF found # None THEN found ELSE PairPass(scores, i + 1, t, mp)

find_solution(scores, t, mp) ==
    IF t <= 0 THEN None
    ELSE IF SinglePass(scores, 1, t, mp) # None THEN SinglePass(scores, 1, t, mp)
    ELSE PairPass(scores, 1, t, mp)

(* one query of the solver *)
Solve ==
    /\ solver_pc = "ready"
    /\ solution' = find_solution(tbl, target, max_plays)
    /\ solver_pc' = "done"
    /\ UNCHANGED <<scheduleVars, tbl, target, max_plays, otherVars>>

-----------------------------------------------------------------------------
(* find_push_plans and the rankings push_cmd presents *)

(* ENERGY_MULTIPLIERS, for the energies 0..10 *)
ENERGY_MULTIPLIERS == [e \in 0..10 |-> <<1, 5, 10, 15, 20, 25, 27, 29, 31, 33, 35>>[e + 1]]

(* energy_options as push_cmd passes them *)
energy_options == <<5, 7, 10>>

top_n == 10
interval == 50
SecondsPerHour == 3600
NotCatchable == 99999
GroupCap == 15
TextRows == 3
n_rows_per == 5

(* a song with one difficulty; base is what calc_ep_value computes before
   it multiplies by boost_rate *)
Song(id, time, base) == [id |-> id, time |-> time, diffs |-> <<[dk |-> "M", base |-> base]>>]

(* mutant: the quotient is rounded down *)
CeilDiv_Floor(a, b) == a \div b

(* math.ceil(a / b) for a >= 0, b > 0 *)
CeilDiv(a, b) == (a + b - 1) \div b

(* round(a / b) for a >= 0, b > 0: to the nearest integer, a half to even *)
RoundDiv(a, b) ==
    LET q == a \div b
        r == a % b
    IN  IF 2 * r < b THEN q
        ELSE IF 2 * r > b THEN q + 1
        ELSE IF q % 2 = 0 THEN q ELSE q + 1

(* 3600 * (ep - border_speed * cycle / 3600), exactly *)
Net3600(ep, cycle, border) == ep * SecondsPerHour - border * cycle

(* the <<ep, cycle, border_speed>> of the inputs for which the exact net is
   0 and the floating-point ep - border_speed * (cycle / 3600) is 2^-42 *)
FloatNetAboveZero == { <<1300, 130, 36000>> }

(* math.ceil(target_ep_gap / net_ep) for such a net (the gap times 2^42),
   kept as one number above every other count of the inputs *)
FloatHugePlays == 200000000

(* net_ep > 0 as the floating-point comparison decides it *)
NetPositive(ep, cycle, border) ==
    \/ Net3600(ep, cycle, border) > 0
    \/ <<ep, cycle, border>> \in FloatNetAboveZero

(* the record appended to by_energy[energy] *)
Candidate(song, d, energy, gap, border) ==
    LET boost == ENERGY_MULTIPLIERS[energy]
        ep == d.base * boost
        cycle == song.time + interval
        plays == CeilDiv(gap, ep)
        ok == border <= 0 \/ NetPositive(ep, cycle, border)
        adj == IF border <= 0 THEN plays
               ELSE IF ~ok THEN NotCatchable
               ELSE IF Net3600(ep, cycle, border) > 0
                    THEN CeilDiv(gap * SecondsPerHour, Net3600(ep, cycle, border))
               ELSE FloatHugePlays
    IN  [id |-> song.id, diff |-> d.dk, time |-> song.time, energy |-> energy,
         boost |-> boost, ep |-> ep, eph |-> RoundDiv(ep * SecondsPerHour, cycle),
         plays |-> plays, stamina |-> plays * energy, adj_plays |-> adj,
         adj_stamina |-> IF border > 0 /\ ~ok THEN NotCatchable ELSE adj * energy,
         catchable |-> ok]

(* the candidates of one song for one energy, in the order of its diffs *)
RECURSIVE SongCandidates(_, _, _, _, _)
SongCandidates(song, k, energy, gap, border) ==
    IF k > Len(song.diffs) THEN <<>>
    ELSE (IF song.diffs[k].base * ENERGY_MULTIPLIERS[energy] <= 0 THEN <<>>
          ELSE <<Candidate(song, song.diffs[k], energy, gap, border)>>)
         \o SongCandidates(song, k + 1, energy, gap, border)

(* by_energy[energy] after the loop over SONG_DB *)
RECURSIVE by_energy(_, _, _, _, _)
by_energy(db, i, energy, gap, border) ==
    IF i > Len(db) THEN <<>>
    ELSE (IF db[i].time <= 0 THEN <<>>
          ELSE SongCandidates(db[i], 1, energy, gap, border))
         \o by_energy(db, i + 1, energy, gap, border)

(* key(x) <= key(y) for the key (-catchable, adj_plays, -eph) *)
planLeq(x, y) ==
    \/ x.catchable /\ ~y.catchable
    \/ /\ x.catchable = y.catchable
       /\ \/ x.adj_plays < y.adj_plays
          \/ x.adj_plays = y.adj_plays /\ x.eph >= y.eph

(* -x['eph'] and x['adj_plays'], the keys of the two rankings *)
ephLeq(x, y) == x.eph >= y.eph
adjLeq(x, y) == x.adj_plays <= y.adj_plays

(* key(x) <= key(y) for the key named *)
keyLeq(key, x, y) ==
    CASE key = "plan" -> planLeq(x, y)
      [] key = "eph" -> ephLeq(x, y)
      [] key = "adj_plays" -> adjLeq(x, y)

(* items.sort(key=...): stable, so x goes after the items whose key is <= *)
RECURSIVE InsertPlan(_, _, _)
InsertPlan(sorted, x, key) ==
    IF sorted = <<>> THEN <<x>>
    ELSE IF keyLeq(key, Head(sorted), x)
         THEN <<Head(sorted)>> \o InsertPlan(Tail(sorted), x, key)
    ELSE <<x>> \o sorted

RECURSIVE SortPlans(_, _)
SortPlans(items, key) ==
    IF items = <<>> THEN <<>>
    ELSE InsertPlan(SortPlans(SubSeq(items, 1, Len(items) - 1), key), items[Len(items)], key)

(* the loop "for r in items": the first top_n catchable items with a new
   (id, diff) *)
RECURSIVE TakePlans(_, _, _, _)
TakePlans(items, i, seen, taken) ==
    IF i > Len(items) \/ Len(taken) >= top_n THEN taken
    ELSE IF ~items[i].catchable \/ <<items[i].id, items[i].diff>> \in seen
         THEN TakePlans(items, i + 1, seen, taken)
    ELSE TakePlans(items, i + 1, seen \cup {<<items[i].id, items[i].diff>>},
                   Append(taken, items[i]))

(* the results of one energy *)
EnergyPlans(db, energy, gap, border) ==
    TakePlans(SortPlans(by_energy(db, 1, energy, gap, border), "plan"), 1, {}, <<>>)

RECURSIVE PlansFrom(_, _, _, _)
PlansFrom(db, k, gap, border) ==
    IF k > Len(energy_options) THEN <<>>
    ELSE EnergyPlans(db, energy_options[k], gap, border) \o PlansFrom(db, k + 1, gap, border)

find_push_plans(db, gap, border) == PlansFrom(db, 1, gap, border)

(* grouped[e] of push_cmd and create_push_plan_image: the first GroupCap
   plans of the energy *)
grouped(ps, e) ==
    LET mine == SelectSeq(ps, LAMBDA p : p.energy = e)
    IN  SubSeq(mine, 1, Min(Len(mine), GroupCap))

(* sorted(grouped[energy], key=lambda x: -x['eph'])[:n] *)
LongRun(ps, e, n) ==
    LET rows == SortPlans(grouped(ps, e), "eph")
    IN  SubSeq(rows, 1, Min(Len(rows), n))

(* sorted(grouped[energy], key=lambda x: x.get('adj_plays', x['plays']))[:n] *)
ShortRun(ps, e, n) ==
    LET rows == SortPlans(grouped(ps, e), "adj_plays")
    IN  SubSeq(rows, 1, Min(Len(rows), n))

(* the songs the databases are made of: one whose net is 0 at a border speed
   of 36000, the claim's 1000-point song of cycle 120, ten long songs, a
   short song with the best points per hour, and two songs the scan skips *)
MaxSongs == 15

SongPool ==
    <<Song(1, 80, 52), Song(2, 70, 40)>>
    \o [i \in 1..(MaxSongs - 5) |-> Song(2 + i, 130, 100 + i)]
    \o <<Song(MaxSongs - 2, 70, 80), Song(MaxSongs - 1, 0, 90), Song(MaxSongs, 100, 0)>>

Databases == { SubSeq(SongPool, 1, n) : n \in 0..MaxSongs }
Gaps == {30000, 100000}
BorderSpeeds == {0, 36000, 40000, 1000000}

(* one query of the planner *)
Plan ==
    /\ push_pc = "ready"
    /\ plans' = find_push_plans(SONG_DB, target_ep_gap, border_speed)
    /\ push_pc' = "done"
    /\ UNCHANGED <<scheduleVars, solverVars, SONG_DB, target_ep_gap, border_speed,
                   rankingVars, taskVars, probe>>

-----------------------------------------------------------------------------
(* The ranking history: record_ranking_snapshot and create_ranking_chart *)

MaxRecords == 336
TRACKED_RANKS == <<1, 2, 3, 10, 20, 50, 100>>

(* the event names and the sets of ranks a top-100 answer may carry *)
Events == {"e1", "e2"}
RankSets == {{}, {1}, {1, 2}}

(* now.strftime("%Y-%m-%d %H:00"), as the number of the hour *)
HourOf(t) == t \div TicksPerHour

(* the entry of one hour; borders is the set of the ranks it holds *)
Snapshot(hour, event, ranks) == [time |-> hour, event |-> event, borders |-> ranks]

(* mutant: records[:n], the oldest entries are kept *)
LastN_First(records, n) ==
    IF Len(records) <= n THEN records
    ELSE SubSeq(records, 1, n)

(* records[-n:] *)
LastN(records, n) ==
    IF Len(records) <= n THEN records
    ELSE SubSeq(records, Len(records) - n + 1, Len(records))

(* a history of n hourly entries that ends the hour before the clock starts *)
Stored(n) == [i \in 1..n |-> Snapshot(StartHour - n + i - 1, "e1", {1, 2})]

(* the lengths a history read from ranking_history.json starts with *)
StoredLengths == {0, MaxRecords - 1}

(* mutant: the last entry's time is compared with == and never matches *)
AlreadyRecorded_Never(records, now_str) == FALSE

(* records and records[-1]["time"].startswith(now_str[:13]) *)
AlreadyRecorded(records, now_str) ==
    records # <<>> /\ records[Len(records)].time = now_str

(* record_ranking_snapshot(): ok is resp.status == 200 *)
record_ranking_snapshot ==
    \E ok \in BOOLEAN, event_name \in Events, rankings \in RankSets :
        LET records == ranking_history.records
            now_str == HourOf(now)
            appended == Append(records, Snapshot(now_str, event_name, rankings))
        IN  /\ IF ~ok \/ rankings = {}
               THEN /\ snap_result' = "failed"
                    /\ UNCHANGED ranking_history
               ELSE IF AlreadyRecorded(records, now_str)
               THEN /\ snap_result' = "skipped"
                    /\ ranking_history' = [ranking_history EXCEPT !.event_name = event_name]
               ELSE /\ snap_result' = "appended"
                    /\ ranking_history' =
                          [event_name |-> event_name,
                           records |-> IF Len(appended) > MaxRecords
                                       THEN LastN(appended, MaxRecords)
                                       ELSE appended]
            /\ UNCHANGED <<scheduleVars, solverVars, pushVars, chart, taskVars, probe>>

(* mutant: the wrapper hands over every record *)
CurrentRecords_All(history) == history.records

(* the wrapper of bot.py: the records of the current event, when it has a name *)
CurrentRecords(history) ==
    IF history.event_name = "" THEN history.records
    ELSE SelectSeq(history.records, LAMBDA r : r.event = history.event_name)

(* the borders a request is about: the rank asked for, or the tracked ranks *)
BordersOf(rank) ==
    IF rank # 0 THEN {rank} ELSE { TRACKED_RANKS[i] : i \in 1..Len(TRACKED_RANKS) }

(* len(ts): the records that hold the border *)
PointsOf(records, b) == Cardinality({ i \in 1..Len(records) : b \in records[i].borders })

(* create_ranking_chart(records, rank): "none" is the None it returns *)
create_ranking_chart(records, rank) ==
    IF Len(records) < 2 THEN "none"
    ELSE IF { b \in BordersOf(rank) : PointsOf(records, b) >= 2 } = {} THEN "none"
    ELSE "chart"

(* ranking_chart_cmd(rank): rank 0 asks for all tracked ranks *)
ranking_chart_cmd ==
    \E rank \in {0, 1, 2, 3} :
        /\ chart' = [rank |-> rank,
                     answer |-> IF create_ranking_chart(CurrentRecords(ranking_history), rank) = "none"
                                THEN "insufficient" ELSE "chart"]
        /\ UNCHANGED <<scheduleVars, solverVars, pushVars, ranking_history, snap_result,
                       taskVars, probe>>

-----------------------------------------------------------------------------
(* Handlers in flight: the event loop runs a handler from its dispatch to
   its first await, and other handlers run while it awaits *)

NumTasks == 2

(* an edit form with every field left empty *)
NoForm == [k \in {"p2", "p3", "p4", "p5"} |-> EmptyField]

(* the requests a handler is dispatched with *)
Requests ==
    { [kind |-> "signup", uid |-> u, role |-> btn[1], multi |-> btn[2], rng |-> g,
       form |-> NoForm] :
        u \in Uids, btn \in {<<"pusher", 1>>, <<"s6", 1>>, <<"pusher", 2>>},
        g \in RangeInputs \ {BadRange} }
    \cup { [kind |-> "cancel", uid |-> u, role |-> "", multi |-> 1, rng |-> g,
             form |-> NoForm] :
        u \in Uids, g \in RangeInputs \ {BadRange} }
    \cup { [kind |-> "edit", uid |-> Stranger, role |-> "", multi |-> 1, rng |-> g,
             form |-> f] :
        g \in RangeInputs \ {BadRange}, f \in EditForms }

(* mutant: the handler works on the schedule as it was at its dispatch *)
ScheduleRead_Stale(current, seen) == seen

(* the schedule a handler's checks read: bot_data["schedule"] at the time the
   handler runs, as no await stands between its dispatch, its checks and
   save_data() *)
ScheduleRead(current, seen) == current

(* bot_data["schedule"][today][h].setdefault("applicants",[]).append(app)
   for the hours of todo *)
RECURSIVE AppendAll(_, _, _, _, _)
AppendAll(sched, today, todo, i, app) ==
    IF i > Len(todo) THEN sched
    ELSE LET day == sched[today]
             h == todo[i]
             slot == IF h \in DOMAIN day THEN day[h] ELSE EmptyShift
         IN  AppendAll([sched EXCEPT ![today] =
                          [x \in DOMAIN day \cup {h} |->
                             IF x = h THEN [slot EXCEPT !.applicants = Append(@, app)]
                             ELSE day[x]]],
                       today, todo, i + 1, app)

(* SignupScheduleModal.on_submit from the parse of the hours on: a text
   that yields no hour is answered before the day is created; the hours are
   checked against view and the applicant is appended to sched, once for an
   hour the text names twice *)
SignupRun(view, sched, req, t) ==
    LET today == get_today(t)
        view0 == WithDay(view, today)
        sched0 == WithDay(sched, today)
        hours == HoursOf(req.rng)
        app == MakeApp(req.uid, members[req.uid], req.role, req.multi, t)
        first == { i \in 1..Len(hours) : \A j \in 1..(i - 1) : hours[j] # hours[i] }
        wanted == { i \in first : /\ ~is_signup_closed(hours[i], t, view0)[1]
                                  /\ ~Holds(view0, today, hours[i], req.uid) }
        todo == SelectSeq([i \in 1..Len(hours) |-> IF i \in wanted THEN hours[i] ELSE -1],
                          LAMBDA h : h >= 0)
    IN  IF hours = <<>> THEN sched
        ELSE IF todo # <<>>
        THEN refresh_schedule(AppendAll(sched0, today, todo, 1, app), today)
        ELSE sched0

(* cancel_cmd: the applicant lists are read from view and written to sched *)
CancelRun(view, sched, req, t) ==
    LET today == get_today(t)
        hours == HoursOf(req.rng)
        there == { hours[i] : i \in { j \in 1..Len(hours) :
                      /\ today \in DOMAIN view /\ hours[j] \in DOMAIN view[today]
                      /\ today \in DOMAIN sched /\ hours[j] \in DOMAIN sched[today] } }
        kept(h) == SelectSeq(view[today][h].applicants, LAMBDA a : a.user_id # req.uid)
        cancelled == { h \in there : Len(kept(h)) < Len(view[today][h].applicants) }
        written == IF there = {} THEN sched
                   ELSE [sched EXCEPT ![today] =
                           [h \in DOMAIN sched[today] |->
                              IF h \in there
                              THEN [sched[today][h] EXCEPT !.applicants = kept(h)]
                              ELSE sched[today][h]]]
    IN  IF cancelled # {} THEN refresh_schedule(written, today) ELSE written

(* EditScheduleModal.on_submit: the positions are written to sched *)
EditRun(sched, req, t) ==
    LET today == get_today(t)
        sched0 == WithDay(sched, today)
    IN  [sched0 EXCEPT ![today] = EditHours(sched0[today], EditHoursOf(req.rng), 1, req.form)]

(* the handler of a request from its first line to its first await *)
HandlerRun(view, sched, req, t) ==
    CASE req.kind = "signup" -> SignupRun(view, sched, req, t)
      [] req.kind = "cancel" -> CancelRun(view, sched, req, t)
      [] req.kind = "edit" -> EditRun(sched, req, t)

(* the library dispatches an interaction: the handler's coroutine is created *)
Dispatch ==
    \E req \in Requests :
        /\ Len(tasks) < NumTasks
        /\ tasks' = Append(tasks, [req |-> req, pc |-> "dispatched", seen |-> schedule])
        /\ UNCHANGED <<scheduleVars, solverVars, pushVars, rankingVars, order, probe>>

(* the event loop runs a dispatched handler up to its await of the reply *)
Run ==
    \E i \in 1..Len(tasks) :
        /\ tasks[i].pc = "dispatched"
        /\ schedule' = HandlerRun(ScheduleRead(schedule, tasks[i].seen), schedule,
                                  tasks[i].req, now)
        /\ tasks' = [tasks EXCEPT ![i].pc = "awaiting"]
        /\ order' = Append(order, [req |-> tasks[i].req, at |-> now])
        /\ UNCHANGED <<now, members, schedule_open, outcome, ops, admin_ops,
                       solverVars, pushVars, rankingVars, probe>>

(* the reply is sent and the handler ends *)
Reply ==
    \E i \in 1..Len(tasks) :
        /\ tasks[i].pc = "awaiting"
        /\ tasks' = [tasks EXCEPT ![i].pc = "done"]
        /\ UNCHANGED <<scheduleVars, solverVars, pushVars, rankingVars, order, probe>>

-----------------------------------------------------------------------------
(* The member registry: register_cmd and update_cmd *)

MinBonus == 118
MaxBonus == 388

InBounds(v) == MinBonus <= v /\ v <= MaxBonus

(* the values typed for a bonus, in hundredths: both bounds, a value on each
   side of them and one in between *)
BonusInputs == {MinBonus - 1, MinBonus, 250, MaxBonus, MaxBonus + 1}

(* register_cmd: the primary bonus is checked first, then each secondary
   bonus that is not 0; the record replaces the one the registry had *)
register_cmd ==
    \E uid \in Uids, bonus \in BonusInputs, bonus_2 \in {0, MinBonus - 1, 240},
       s6_bonus \in {0, MaxBonus + 1}, multi \in {1, 2} :
        /\ ops < MaxOps
        /\ ops' = ops + 1
        /\ IF ~InBounds(bonus)
           THEN /\ outcome' = Outcome(uid, "out_of_range", <<>>, <<>>, <<"bonus">>)
                /\ UNCHANGED members
           ELSE IF bonus_2 # 0 /\ ~InBounds(bonus_2)
           THEN /\ outcome' = Outcome(uid, "out_of_range", <<>>, <<>>, <<"bonus_2">>)
                /\ UNCHANGED members
           ELSE IF s6_bonus # 0 /\ ~InBounds(s6_bonus)
           THEN /\ outcome' = Outcome(uid, "out_of_range", <<>>, <<>>, <<"s6_bonus">>)
                /\ UNCHANGED members
           ELSE /\ members' = [members EXCEPT ![uid] =
                                 [registered |-> TRUE, bonus |-> bonus,
                                  bonus_2 |-> bonus_2, bonus_3 |-> 0,
                                  s6_bonus |-> s6_bonus, multi |-> multi]]
                /\ outcome' = Outcome(uid, "member_registered", <<>>, <<>>, <<>>)
        /\ UNCHANGED <<now, schedule_open, schedule, admin_ops, solverVars, otherVars>>

(* m[k] = v when the option was given *)
Given(old, opt) == IF opt = None THEN old ELSE opt[1]

(* update_cmd: every option that was given is stored *)
update_cmd ==
    \E uid \in Users, bonus \in {None} \cup { Some(b) : b \in BonusInputs },
       bonus_2 \in {None, Some(MinBonus - 1)}, multi \in {None, Some(2)} :
        /\ ops < MaxOps
        /\ ops' = ops + 1
        /\ IF ~members[uid].registered
           THEN /\ outcome' = Outcome(uid, "not_member", <<>>, <<>>, <<>>)
                /\ UNCHANGED members
           ELSE /\ members' = [members EXCEPT ![uid] =
                                 [@ EXCEPT !.bonus = Given(@, bonus),
                                           !.bonus_2 = Given(@, bonus_2),
                                           !.multi = Given(@, multi)]]
                /\ outcome' = Outcome(uid, "member_updated", <<>>, <<>>, <<>>)
        /\ UNCHANGED <<now, schedule_open, schedule, admin_ops, solverVars, otherVars>>

-----------------------------------------------------------------------------
(* is_signup_closed asked about any hour label at any time of the day *)

AllHourLabels == 0..(HoursPerDay - 1)

(* the times of one day, the second one counted *)
TimesOfDay == TicksPerDay..(2 * TicksPerDay - 1)

(* a call of is_signup_closed(hour_str): st and the answer *)
is_signup_closed_call ==
    \E h \in AllHourLabels :
        /\ probe' = [hour |-> h, st |-> SlotStart(h, now),
                    closed |-> is_signup_closed(h, now, schedule)[1]]
        /\ UNCHANGED <<scheduleVars, solverVars, pushVars, rankingVars, taskVars>>

-----------------------------------------------------------------------------
(* auto_assign_schedule over the applicant lists a slot can hold *)

MaxPool == 3

(* what an applicant of the list can be: the bonus in three neighbouring
   hundredths, one of two registration times, and its role (a pusher with one
   or two accounts, an alt with or without an alt bonus, a support) *)
PoolEntries(uid) ==
    { [user_id |-> uid, name |-> uid, acct |-> 0, bonus |-> b, bonus_2 |-> 0,
       bonus_3 |-> 0, s6_bonus |-> k[3], multi |-> k[2], role |-> k[1],
       registered_at |-> t] :
        b \in {200, 201, 202}, t \in {1, 2},
        k \in {<<"pusher", 1, 0>>, <<"pusher", 2, 0>>, <<"s6", 1, 0>>,
               <<"s6", 1, 250>>, <<"support", 1, 0>>} }

(* the applicant lists of up to max applicants: the i-th applicant is user i *)
Pools(max) ==
    UNION { { p \in [1..n -> UNION { PoolEntries(u) : u \in 1..n }] :
                \A i \in 1..n : p[i].user_id = i } : n \in 1..max }

(* refresh_schedule(today), called by the handler that changed a list *)
Assign ==
    /\ ops = 0
    /\ ops' = 1
    /\ schedule' = refresh_schedule(schedule, get_today(now))
    /\ UNCHANGED <<now, members, schedule_open, outcome, admin_ops, solverVars, otherVars>>

-----------------------------------------------------------------------------
(* Sign-ups whose hour text names any two numbers of one or two digits *)

(* the numbers the text "a-b" is written with; BadRange is a text the
   pattern does not match *)
Endpoints == {0, 5, 12, 23, 24, 25, 30, 99}
WideRanges == (Endpoints \X Endpoints) \cup {BadRange}

(* the library dispatches a sign-up with such a text *)
DispatchWide ==
    \E uid \in Uids, rng \in WideRanges :
        /\ tasks = <<>>
        /\ tasks' = <<[req |-> [kind |-> "signup", uid |-> uid, role |-> "pusher",
                                multi |-> 1, rng |-> rng, form |-> NoForm],
                       pc |-> "dispatched", seen |-> schedule]>>
        /\ UNCHANGED <<scheduleVars, solverVars, pushVars, rankingVars, order, probe>>

-----------------------------------------------------------------------------
(* Specifications *)

SolverIdle ==
    /\ tbl = <<>>
    /\ target = 0
    /\ max_plays = DefaultMaxPlays
    /\ solution = None
    /\ solver_pc = "idle"

PushIdle ==
    /\ SONG_DB = <<>>
    /\ target_ep_gap = 0
    /\ border_speed = 0
    /\ plans = <<>>
    /\ push_pc = "idle"

RankingIdle ==
    /\ ranking_history = [event_name |-> "", records |-> <<>>]
    /\ snap_result = "none"
    /\ chart = [rank |-> 0, answer |-> "none"]

TasksIdle ==
    /\ tasks = <<>>
    /\ order = <<>>

NoSlot == [hour |-> -1, st |-> 0, closed |-> FALSE]

SlotIdle == probe = NoSlot

OthersIdle == PushIdle /\ RankingIdle /\ TasksIdle /\ SlotIdle

ScheduleIdle ==
    /\ now = StartHour * TicksPerHour
    /\ members = CHOOSE r \in Registries : TRUE
    /\ schedule_open = FALSE
    /\ schedule = [d \in {} |-> [h \in {} |-> EmptyShift]]
    /\ outcome = NoOutcome
    /\ ops = 0
    /\ admin_ops = 0

Init ==
    /\ now = StartHour * TicksPerHour
    /\ members \in Registries
    /\ ops = 0
    /\ admin_ops = 0
    /\ schedule_open \in BOOLEAN
    /\ schedule = [d \in {} |-> [h \in {} |-> EmptyShift]]
    /\ outcome = NoOutcome
    /\ SolverIdle
    /\ OthersIdle

UserNext ==
    \/ SignupScheduleModal_on_submit
    \/ signup_cmd
    \/ on_message
    \/ cancel_cmd
    \/ Tick

UserSpec == Init /\ [][UserNext]_vars

Next ==
    \/ SignupScheduleModal_on_submit
    \/ signup_cmd
    \/ on_message
    \/ cancel_cmd
    \/ Tick
    \/ EditScheduleModal_on_submit
    \/ confirm_cmd
    \/ clear_cmd
    \/ import_csv_cmd
    \/ open_cmd
    \/ close_schedule_cmd

Spec == Init /\ [][Next]_vars

(* the planner, queried with any database, gap and border speed of the bounds *)
PushInit ==
    /\ ScheduleIdle
    /\ SolverIdle
    /\ RankingIdle
    /\ TasksIdle
    /\ SlotIdle
    /\ SONG_DB \in Databases
    /\ target_ep_gap \in Gaps
    /\ border_speed \in BorderSpeeds
    /\ plans = <<>>
    /\ push_pc = "ready"

PushNext == Plan

PushSpec == PushInit /\ [][PushNext]_vars

(* the ranking history, from an empty or a nearly full store *)
RankingInit ==
    /\ ScheduleIdle
    /\ SolverIdle
    /\ PushIdle
    /\ TasksIdle
    /\ SlotIdle
    /\ \E n \in StoredLengths :
          ranking_history = [event_name |-> IF n = 0 THEN "" ELSE "e1", records |-> Stored(n)]
    /\ snap_result = "none"
    /\ chart = [rank |-> 0, answer |-> "none"]

RankingNext ==
    \/ record_ranking_snapshot
    \/ ranking_chart_cmd
    \/ Tick

RankingSpec == RankingInit /\ [][RankingNext]_vars

(* handlers in flight, with sign-up open and every user a member *)
TaskInit ==
    /\ now = StartHour * TicksPerHour
    /\ members = CHOOSE r \in Registries : TRUE
    /\ schedule_open = TRUE
    /\ schedule = [d \in {} |-> [h \in {} |-> EmptyShift]]
    /\ outcome = NoOutcome
    /\ ops = 0
    /\ admin_ops = 0
    /\ SolverIdle
    /\ PushIdle
    /\ RankingIdle
    /\ TasksIdle
    /\ SlotIdle

TaskNext ==
    \/ Dispatch
    \/ Run
    \/ Reply
    \/ Tick

TaskSpec == TaskInit /\ [][TaskNext]_vars

(* the registry commands, from an empty registry *)
MemberInit ==
    /\ now = StartHour * TicksPerHour
    /\ members = [u \in Users |-> NoMember]
    /\ schedule_open = FALSE
    /\ schedule = [d \in {} |-> [h \in {} |-> EmptyShift]]
    /\ outcome = NoOutcome
    /\ ops = 0
    /\ admin_ops = 0
    /\ SolverIdle
    /\ OthersIdle

MemberNext ==
    \/ register_cmd
    \/ update_cmd

MemberSpec == MemberInit /\ [][MemberNext]_vars

(* is_signup_closed at every time of a day *)
TimeInit ==
    /\ now \in TimesOfDay
    /\ members = [u \in Users |-> NoMember]
    /\ schedule_open = FALSE
    /\ schedule = [d \in {} |-> [h \in {} |-> EmptyShift]]
    /\ outcome = NoOutcome
    /\ ops = 0
    /\ admin_ops = 0
    /\ SolverIdle
    /\ OthersIdle

TimeNext == is_signup_closed_call

TimeSpec == TimeInit /\ [][TimeNext]_vars

(* one slot whose applicant list was just written, before the refresh *)
AssignInit ==
    /\ now = StartHour * TicksPerHour
    /\ members = [u \in Users |-> NoMember]
    /\ schedule_open = TRUE
    /\ \E p \in Pools(MaxPool) :
          schedule = [d \in {get_today(now)} |->
                        [h \in {FirstHour % HoursPerDay} |->
                            [EmptyShift EXCEPT !.applicants = p]]]
    /\ outcome = NoOutcome
    /\ ops = 0
    /\ admin_ops = 0
    /\ SolverIdle
    /\ OthersIdle

AssignNext == Assign

AssignSpec == AssignInit /\ [][AssignNext]_vars

(* one sign-up with any hour text, from the state of TaskInit *)
WideNext ==
    \/ DispatchWide
    \/ Run
    \/ Reply

WideSpec == TaskInit /\ [][WideNext]_vars

(* the solver, queried with any catalog, target and max_plays of the bounds *)
SolverInit ==
    /\ ScheduleIdle
    /\ OthersIdle
    /\ tbl \in { Descending(S) : S \in SUBSET ScoreVals }
    /\ target \in 0..MaxTarget
    /\ max_plays \in (1..MaxPlaysBound) \cup {DefaultMaxPlays}
    /\ solution = None
    /\ solver_pc = "ready"

SolverNext == Solve

SolverSpec == SolverInit /\ [][SolverNext]_vars

-----------------------------------------------------------------------------
(* Properties *)

HandlerRan == ops' # ops

SignupKinds == {"registered", "dup", "dup_or_closed", "silent", "all_closed"}

Slots == { <<d, h>> \in (DOMAIN schedule) \X (0..23) : h \in DOMAIN schedule[d] }

(* the uids in the applicant list of hour h of day d *)
AppUids(sched, d, h) ==
    IF d \in DOMAIN sched /\ h \in DOMAIN sched[d]
    THEN { sched[d][h].applicants[k].user_id : k \in 1..Len(sched[d][h].applicants) }
    ELSE {}

AppsOf(sched, d, h) ==
    IF d \in DOMAIN sched /\ h \in DOMAIN sched[d]
    THEN sched[d][h].applicants ELSE <<>>

RolesOf(sh) == <<sh.p2, sh.p3, sh.p4, sh.p5, sh.support, sh.avg_bonus>>

PushersOf(sh) == <<sh.p3, sh.p4, sh.p5>>

(* the pusher positions (1..3 for p3..p5) that uid occupies *)
OccIdx(sh, uid) ==
    { k \in 1..3 : PushersOf(sh)[k] # None /\ PushersOf(sh)[k][1].user_id = uid }

RECURSIVE SumOver(_, _)
SumOver(S, f) ==
    IF S = {} THEN 0
    ELSE LET x == CHOOSE y \in S : TRUE IN f[x] + SumOver(S \ {x}, f)

(* C1: after any sequence of sign-ups and cancels, the role positions and
   avg_bonus of every slot are those assign yields for the slot's applicant
   list, and all of them are empty when the list is empty (so a participant
   who cancelled occupies no position) *)
C1_RolesFollowApplicants ==
    \A sl \in Slots :
        LET sh == schedule[sl[1]][sl[2]]
        IN  IF sh.applicants = <<>>
            THEN RolesOf(sh) = RolesOf(EmptyShift)
            ELSE RolesOf(sh) = RolesOf(auto_assign_schedule(sh.applicants))

(* C2: in every reachable state, avg_bonus of every shift is the mean of the
   bonuses in its occupied pusher positions p3-p5, and 0 when none is occupied
   (avg_bonus is in units of 1/600, a bonus in hundredths) *)
C2_AverageBonus ==
    \A sl \in Slots :
        LET sh == schedule[sl[1]][sl[2]]
            occ == { k \in 1..3 : PushersOf(sh)[k] # None }
            total == SumOver(occ, [k \in 1..3 |->
                        IF PushersOf(sh)[k] # None THEN PushersOf(sh)[k][1].bonus ELSE 0])
        IN  /\ sh.avg_bonus * Cardinality(occ) = total * 6
            /\ occ = {} => sh.avg_bonus = 0

(* a shift that a manual edit left with two different pusher bonuses *)
C2_Witness ==
    /\ outcome.kind = "edited"
    /\ \E sl \in Slots :
          LET sh == schedule[sl[1]][sl[2]]
          IN  /\ sh.p3 # None /\ sh.p4 # None
              /\ sh.p3[1].bonus # sh.p4[1].bonus
              /\ sh.p4[1].bonus > 0
              /\ sh.avg_bonus > 0

(* C3: is_signup_closed reports closed exactly when the slot starts within
   1 hour, or within 2 hours and the slot's alt position p2 is filled *)
C3_ClosingWindow ==
    \A h \in 0..23 :
        LET hu == HoursUntil(h, now)
            today == get_today(now)
            alt == /\ today \in DOMAIN schedule
                   /\ h \in DOMAIN schedule[today]
                   /\ schedule[today][h].p2 # None
        IN  is_signup_closed(h, now, schedule)[1]
              <=> (hu <= TicksPerHour \/ (hu <= 2 * TicksPerHour /\ alt))

(* a request refused for an hour exactly 1 h away and for an hour 2 h away
   whose alt position is filled, while an hour 2 h away without alt is open *)
C3_Witness ==
    /\ outcome.kind = "all_closed"
    /\ \E i, j \in 1..Len(outcome.reasons) :
          /\ outcome.reasons[i][2] = "1h"
          /\ HoursUntil(outcome.reasons[i][1], now) = TicksPerHour
          /\ outcome.reasons[j][2] = "2h_s6"
          /\ HoursUntil(outcome.reasons[j][1], now) > TicksPerHour
    /\ \E h \in 0..23 :
          /\ HoursUntil(h, now) > TicksPerHour
          /\ ~is_signup_closed(h, now, schedule)[1]

(* C4: a handler appends a participant to hour h only if is_signup_closed(h)
   is false when it runs, and a sign-up registers every requested hour that is
   open and not held yet, whatever the other requested hours are *)
C4_Step ==
    HandlerRan =>
        LET today == get_today(now)
        IN  /\ \A d \in DOMAIN schedule' : \A h \in 0..23 :
                  AppUids(schedule', d, h) \ AppUids(schedule, d, h) # {}
                    => /\ d = today
                       /\ ~is_signup_closed(h, now, schedule)[1]
            /\ outcome'.kind \in SignupKinds =>
                  \A i \in 1..Len(outcome'.hours) :
                      ~is_signup_closed(outcome'.hours[i], now, schedule)[1]
                        => outcome'.uid \in AppUids(schedule', today, outcome'.hours[i])

C4_OnlyOpenHours == [][C4_Step]_vars

(* a request of which one hour was closed and another was registered *)
C4_Witness ==
    /\ outcome.kind = "registered"
    /\ \E i, j \in 1..Len(outcome.hours) :
          /\ is_signup_closed(outcome.hours[i], now, schedule)[2] = "1h"
          /\ outcome.uid \notin AppUids(schedule, get_today(now), outcome.hours[i])
          /\ outcome.registered = <<outcome.hours[j]>>
          /\ outcome.uid \in AppUids(schedule, get_today(now), outcome.hours[j])

(* C5: a participant is at most once in a slot's applicant list; a sign-up
   for an hour the participant holds leaves that hour's list unchanged and
   does not report the hour as registered *)
C5_Unique ==
    \A sl \in Slots :
        LET apps == schedule[sl[1]][sl[2]].applicants
        IN  \A i, j \in 1..Len(apps) : apps[i].user_id = apps[j].user_id => i = j

C5_Step ==
    (HandlerRan /\ outcome'.kind \in SignupKinds) =>
        LET today == get_today(now)
        IN  \A i \in 1..Len(outcome'.hours) :
                LET h == outcome'.hours[i]
                IN  outcome'.uid \in AppUids(schedule, today, h)
                      => /\ AppsOf(schedule', today, h) = AppsOf(schedule, today, h)
                         /\ \A k \in 1..Len(outcome'.registered) :
                               outcome'.registered[k] # h

C5_NoDuplicates == ([]C5_Unique) /\ [][C5_Step]_vars

(* a sign-up repeated for an open hour the participant holds: nothing new *)
C5_Witness ==
    /\ outcome.kind \in {"dup", "dup_or_closed", "silent"}
    /\ \E i \in 1..Len(outcome.hours) :
          /\ ~is_signup_closed(outcome.hours[i], now, schedule)[1]
          /\ outcome.uid \in AppUids(schedule, get_today(now), outcome.hours[i])

(* the 1/50 bucket of a bonus and the declared multiplicity of a candidate *)
Bucket(a) == Round50(a.bonus)
Multiplicity(a) == IF a.multi \in {2, 3} THEN a.multi ELSE 1

(* candidate i of apps comes before candidate j in the order of the key
   (-bucket, registered_at); candidates with equal keys keep the list order *)
ComesBefore(apps, i, j) ==
    \/ Bucket(apps[i]) > Bucket(apps[j])
    \/ /\ Bucket(apps[i]) = Bucket(apps[j])
       /\ \/ apps[i].registered_at < apps[j].registered_at
          \/ apps[i].registered_at = apps[j].registered_at /\ i < j

PusherIdx(apps) == { i \in 1..Len(apps) : apps[i].role \notin {"s6", "support"} }

(* the positions left when candidate i is reached *)
Remaining(apps, i) ==
    LET before == { k \in PusherIdx(apps) : k # i /\ ComesBefore(apps, k, i) }
        taken == SumOver(before, [k \in 1..Len(apps) |-> Multiplicity(apps[k])])
    IN  IF taken >= 3 THEN 0 ELSE 3 - taken

(* C6: assign fills the pusher positions contiguously from p3 and never more
   than 3; every candidate, in sort order, takes min(multiplicity, remaining)
   positions, so a triple candidate that is first fills all 3 *)
C6_Multiplicity ==
    \A sl \in Slots :
        LET apps == schedule[sl[1]][sl[2]].applicants
            sh == auto_assign_schedule(apps)
        IN  apps # <<>> =>
              /\ sh.p4 # None => sh.p3 # None
              /\ sh.p5 # None => sh.p4 # None
              /\ \A i \in PusherIdx(apps) :
                    /\ Cardinality(OccIdx(sh, apps[i].user_id))
                         = Min(Multiplicity(apps[i]), Remaining(apps, i))
                    /\ (Multiplicity(apps[i]) = 3 /\ Remaining(apps, i) = 3)
                         => OccIdx(sh, apps[i].user_id) = {1, 2, 3}

(* a triple candidate holds all three positions and another pusher none *)
C6_Witness ==
    \E sl \in Slots :
        LET sh == schedule[sl[1]][sl[2]]
        IN  \E i, j \in PusherIdx(sh.applicants) :
              /\ i # j
              /\ sh.applicants[i].multi = 3
              /\ OccIdx(sh, sh.applicants[i].user_id) = {1, 2, 3}
              /\ OccIdx(sh, sh.applicants[j].user_id) = {}

(* C7: the pusher positions are filled in the order of the key: a candidate
   of a higher bucket, or of the same bucket and registered earlier, holds
   its positions before any position of the other candidate *)
C7_SortOrder ==
    \A sl \in Slots :
        LET apps == schedule[sl[1]][sl[2]].applicants
            sh == auto_assign_schedule(apps)
        IN  apps # <<>> =>
              \A i, j \in PusherIdx(apps) :
                 ( /\ i # j
                   /\ \/ Bucket(apps[i]) > Bucket(apps[j])
                      \/ /\ Bucket(apps[i]) = Bucket(apps[j])
                         /\ apps[i].registered_at < apps[j].registered_at
                   /\ OccIdx(sh, apps[j].user_id) # {} )
                 => /\ OccIdx(sh, apps[i].user_id) # {}
                    /\ \A a \in OccIdx(sh, apps[i].user_id),
                          b \in OccIdx(sh, apps[j].user_id) : a < b

(* p3 and p4 are two candidates: one of a higher bucket that registered
   later than the other, or one of the same bucket that registered earlier
   with the lower bonus *)
C7_Witness ==
    \E sl \in Slots :
        LET sh == schedule[sl[1]][sl[2]]
        IN  /\ sh.p3 # None /\ sh.p4 # None
            /\ sh.p3[1].user_id # sh.p4[1].user_id
            /\ \/ /\ Bucket(sh.p3[1]) > Bucket(sh.p4[1])
                  /\ sh.p3[1].registered_at > sh.p4[1].registered_at
               \/ /\ Bucket(sh.p3[1]) = Bucket(sh.p4[1])
                  /\ sh.p3[1].bonus < sh.p4[1].bonus
                  /\ sh.p3[1].registered_at < sh.p4[1].registered_at

(* C8: running refresh twice in a row leaves the day's state as after the
   first run (assign reads the applicant list only and refresh keeps it) *)
C8_RefreshIdempotent ==
    \A d \in DOMAIN schedule :
        refresh_schedule(refresh_schedule(schedule, d), d) = refresh_schedule(schedule, d)

(* a day whose role positions a refresh would replace *)
C8_Witness ==
    \E d \in DOMAIN schedule :
        \E h \in DOMAIN schedule[d] :
            /\ schedule[d][h].applicants # <<>>
            /\ RolesOf(refresh_schedule(schedule, d)[d][h]) # RolesOf(schedule[d][h])

(* C9: a solution has 1 or 2 terms, every term is a catalog value repeated
   between 1 and max_plays times, and the terms add up to the target *)
C9_SolutionSound ==
    (solver_pc = "done" /\ solution # None) =>
        /\ Len(solution) \in {1, 2}
        /\ \A k \in 1..Len(solution) :
              /\ solution[k].score \in score_set(tbl)
              /\ solution[k].plays >= 1
              /\ solution[k].plays <= max_plays
        /\ SumOver(1..Len(solution),
                   [k \in 1..Len(solution) |-> solution[k].score * solution[k].plays])
             = target

(* a two-term solution whose first term is repeated *)
C9_Witness ==
    /\ solver_pc = "done"
    /\ Len(solution) = 2
    /\ solution[1].plays = max_plays
    /\ max_plays > 1

(* the admissible single values and the admissible pairs of a query *)
SingleValues == { v \in score_set(tbl) :
                    v <= target /\ target % v = 0 /\ target \div v <= max_plays }
PairChoices == { c \in score_set(tbl) \X (1..max_plays) :
                    /\ c[1] * c[2] <= target
                    /\ (target - c[1] * c[2]) \in score_set(tbl) }
Largest(S) == CHOOSE x \in S : \A y \in S : y <= x

(* C10: find_solution returns the single term of the largest admissible
   value if there is one, otherwise the pair with the largest s1 and for it
   the largest p1 whose remainder is a catalog value, used once *)
C10_FirstAdmissible ==
    /\ (solver_pc = "done" /\ target > 0) =>
          IF SingleValues # {}
          THEN solution = <<ms(Largest(SingleValues), target \div Largest(SingleValues))>>
          ELSE PairChoices # {} =>
                 LET s1 == Largest({ c[1] : c \in PairChoices })
                     p1 == Largest({ c[2] : c \in { x \in PairChoices : x[1] = s1 } })
                 IN  solution = <<ms(s1, p1), ms(target - s1 * p1, 1)>>
    /\ find_solution(Descending({100, 150, 250}), 500, DefaultMaxPlays) = <<ms(250, 2)>>
    /\ find_solution(Descending({90, 140}), 320, DefaultMaxPlays)
         = <<ms(90, 2), ms(140, 1)>>

(* the pair of the smaller s1 is returned: no single value divides the
   target and no pair of the largest value is admissible *)
C10_Witness ==
    /\ solver_pc = "done"
    /\ tbl = <<14, 9>>
    /\ target = 32
    /\ solution = <<ms(9, 2), ms(14, 1)>>

(* the decompositions of the target into at most 2 distinct catalog values,
   each repeated between 1 and max_plays times *)
Decompositions ==
    { c \in (score_set(tbl) \X (1..max_plays)) \X (score_set(tbl) \X (0..max_plays)) :
        /\ c[1][1] * c[1][2] + c[2][1] * c[2][2] = target
        /\ (c[2][2] > 0 => c[1][1] # c[2][1]) }

(* C11: find_solution returns None for a target > 0 only when the target
   has no decomposition into at most 2 distinct catalog values, each used at
   most max_plays times *)
C11_NoneOnlyWhenNoDecomposition ==
    (solver_pc = "done" /\ target > 0 /\ solution = None) => Decompositions = {}

(* the plans of a finished query *)
PlanSet == { plans[i] : i \in 1..Len(plans) }

(* C12: with border_speed > 0, every plan find_push_plans returns has
   ep - border_speed * cycle / 3600 > 0, and nothing is returned when no
   candidate of any tier has *)
C12_NetPositive ==
    (push_pc = "done" /\ border_speed > 0) =>
        /\ \A p \in PlanSet : Net3600(p.ep, p.time + interval, border_speed) > 0
        /\ (\A k \in 1..Len(energy_options) :
              \A i \in 1..Len(by_energy(SONG_DB, 1, energy_options[k], target_ep_gap, border_speed)) :
                 LET c == by_energy(SONG_DB, 1, energy_options[k], target_ep_gap, border_speed)[i]
                 IN  Net3600(c.ep, c.time + interval, border_speed) <= 0)
             => plans = <<>>

(* the catchable candidates of a tier *)
Catchable(e) ==
    LET all == by_energy(SONG_DB, 1, e, target_ep_gap, border_speed)
    IN  { all[i] : i \in { j \in 1..Len(all) : all[j].catchable } }

Rows(shown) == { shown[i] : i \in 1..Len(shown) }

(* the rows shown are n of the tier's catchable candidates, or all of them
   when there are fewer, in order, and no candidate left out does better *)
BestByEph(shown, e, n) ==
    /\ Len(shown) = Min(n, Cardinality(Catchable(e)))
    /\ Rows(shown) \subseteq Catchable(e)
    /\ \A i \in 1..(Len(shown) - 1) : shown[i].eph >= shown[i + 1].eph
    /\ \A c \in Catchable(e) \ Rows(shown) : \A r \in Rows(shown) : c.eph <= r.eph

BestByPlays(shown, e, n) ==
    /\ Len(shown) = Min(n, Cardinality(Catchable(e)))
    /\ Rows(shown) \subseteq Catchable(e)
    /\ \A i \in 1..(Len(shown) - 1) : shown[i].adj_plays <= shown[i + 1].adj_plays
    /\ \A c \in Catchable(e) \ Rows(shown) : \A r \in Rows(shown) : c.adj_plays >= r.adj_plays

(* C13: for each tier, the long-run ranking shown is made of the catchable
   candidates of the tier with the highest points per hour, descending, and
   the fastest ranking of those with the fewest adjusted plays, ascending *)
C13_RankingsAreTheBest ==
    push_pc = "done" =>
        \A k \in 1..Len(energy_options) : \A n \in {TextRows, n_rows_per} :
            /\ BestByEph(LongRun(plans, energy_options[k], n), energy_options[k], n)
            /\ BestByPlays(ShortRun(plans, energy_options[k], n), energy_options[k], n)

(* the half of C13 the code keeps: the fastest ranking *)
C13_FastestAreTheBest ==
    push_pc = "done" =>
        \A k \in 1..Len(energy_options) : \A n \in {TextRows, n_rows_per} :
            BestByPlays(ShortRun(plans, energy_options[k], n), energy_options[k], n)

(* the stored entries of an hour *)
EntriesOf(records, hour) == SelectSeq(records, LAMBDA r : r.time = hour)

C14_OnePerHour ==
    \A i, j \in 1..Len(ranking_history.records) :
        (i # j) => ~(/\ ranking_history.records[i].time = ranking_history.records[j].time
                     /\ ranking_history.records[i].event = ranking_history.records[j].event)

C14_Step ==
    EntriesOf(ranking_history.records, HourOf(now)) # <<>> =>
        EntriesOf(ranking_history'.records, HourOf(now))
            = EntriesOf(ranking_history.records, HourOf(now))

(* C14: the store holds at most one snapshot per hour and label, and an
   attempt in an hour that has a stored snapshot leaves that snapshot as
   it is *)
C14_FirstOfHourKept == ([]C14_OnePerHour) /\ [][C14_Step]_vars

(* an attempt of another event name was skipped in the hour of the last entry *)
C14_Witness ==
    /\ snap_result = "skipped"
    /\ ranking_history.records # <<>>
    /\ ranking_history.records[Len(ranking_history.records)].time = HourOf(now)
    /\ ranking_history.records[Len(ranking_history.records)].event # ranking_history.event_name

C15_AtMost ==
    /\ Len(ranking_history.records) <= MaxRecords
    /\ \A i \in 1..(Len(ranking_history.records) - 1) :
          ranking_history.records[i].time < ranking_history.records[i + 1].time

C15_Step ==
    (/\ Len(ranking_history.records) = MaxRecords
     /\ snap_result' = "appended"
     /\ chart' = chart
     /\ now' = now) =>
        /\ Len(ranking_history'.records) = MaxRecords
        /\ SubSeq(ranking_history'.records, 1, MaxRecords - 1) = Tail(ranking_history.records)
        /\ ranking_history'.records[MaxRecords].time = HourOf(now)

(* C15: the store never holds more than 336 entries, in time order; an
   append to a store of 336 drops exactly the oldest and puts the new entry
   last *)
C15_KeepsNewest == ([]C15_AtMost) /\ [][C15_Step]_vars

(* a store of 336 whose oldest entry was dropped by the last append *)
C15_Witness ==
    /\ snap_result = "appended"
    /\ Len(ranking_history.records) = MaxRecords
    /\ ranking_history.records[1].time = StartHour - MaxRecords + 2
    /\ ranking_history.records[MaxRecords].time = HourOf(now)

(* the stored snapshots of the current label that hold the rank *)
MatchingPoints(history, rank) ==
    Cardinality({ i \in 1..Len(history.records) :
                    /\ history.records[i].event = history.event_name
                    /\ rank \in history.records[i].borders })

C16_Step ==
    (chart' # chart /\ chart'.rank # 0) =>
        (chart'.answer = "insufficient" <=> MatchingPoints(ranking_history, chart'.rank) < 2)

(* C16: a chart request for a rank answers "insufficient history" exactly
   when fewer than 2 stored snapshots of the current label hold the rank *)
C16_InsufficientHistory == [][C16_Step]_vars

(* two stored snapshots hold rank 1, only one of them has the current
   label, and the request for rank 1 was answered "insufficient" *)
C16_Witness ==
    /\ chart = [rank |-> 1, answer |-> "insufficient"]
    /\ PointsOf(ranking_history.records, 1) >= 2
    /\ MatchingPoints(ranking_history, 1) = 1

-----------------------------------------------------------------------------
(* C17 *)

(* one handler run alone on sched at time t *)
SerialStep(sched, req, t) ==
    LET today == get_today(t)
    IN  CASE req.kind = "signup" ->
               LET app == MakeApp(req.uid, members[req.uid], req.role, req.multi, t)
                   res == RegisterHours(WithDay(sched, today), HoursOf(req.rng), 1,
                                        app, t, <<>>)
               IN  IF res.registered # <<>> THEN refresh_schedule(res.sched, today)
                   ELSE res.sched
          [] req.kind = "cancel" ->
               LET res == CancelHours(sched, HoursOf(req.rng), 1, req.uid, today, <<>>)
               IN  IF res.cancelled # <<>> THEN refresh_schedule(res.sched, today)
                   ELSE res.sched
          [] req.kind = "edit" ->
               LET sched0 == WithDay(sched, today)
               IN  [sched0 EXCEPT ![today] =
                      EditHours(sched0[today], EditHoursOf(req.rng), 1, req.form)]

NoSchedule == [d \in {} |-> [h \in {} |-> EmptyShift]]

(* the handlers of ran from the i-th on, each run alone, one after the other;
   a handler that changes nothing leaves sched as it is *)
RECURSIVE SerialRun(_, _, _)
SerialRun(sched, ran, i) ==
    IF i > Len(ran) THEN sched
    ELSE LET after == SerialStep(sched, ran[i].req, ran[i].at)
         IN  IF after = sched THEN SerialRun(sched, ran, i + 1)
             ELSE SerialRun(after, ran, i + 1)

NoDuplicateApplicant ==
    \A d \in DOMAIN schedule : \A h \in DOMAIN schedule[d] :
        LET apps == schedule[d][h].applicants
        IN  \A i, j \in 1..Len(apps) : apps[i].user_id = apps[j].user_id => i = j

(* C17: whatever the interleaving of the sign-up, cancel and edit handlers at
   their awaits, the schedule is the one the handlers produce when they run
   one after the other in the order they ran, and no slot lists an applicant
   twice *)
C17_SerialOrder ==
    /\ schedule = SerialRun(NoSchedule, order, 1)
    /\ NoDuplicateApplicant

(* two sign-ups of the same user were in flight together: the second was
   dispatched before the first changed the schedule, both ran, and the hour
   they share lists the user once *)
C17_Witness ==
    /\ Len(tasks) = 2
    /\ Len(order) = 2
    /\ \A i \in 1..2 : tasks[i].pc = "awaiting" /\ tasks[i].req.kind = "signup"
    /\ tasks[1].req.uid = tasks[2].req.uid
    /\ tasks[1].seen = NoSchedule
    /\ tasks[2].seen = NoSchedule
    /\ \E d \in DOMAIN schedule : \E h \in DOMAIN schedule[d] :
          /\ h \in { HoursOf(tasks[1].req.rng)[k] : k \in 1..Len(HoursOf(tasks[1].req.rng)) }
          /\ h \in { HoursOf(tasks[2].req.rng)[k] : k \in 1..Len(HoursOf(tasks[2].req.rng)) }
          /\ Len(schedule[d][h].applicants) = 1

-----------------------------------------------------------------------------
(* C18 *)

SignupReplies == {"all_closed", "registered", "dup", "dup_or_closed", "silent"}

(* the applicant lists of the slots of sched, slots without applicants left out *)
ApplicantLists(sched) ==
    UNION { { <<d, h, sched[d][h].applicants>> :
                h \in { x \in DOMAIN sched[d] : sched[d][x].applicants # <<>> } } :
            d \in DOMAIN sched }

C18_Step ==
    LET today == get_today(now)
        hours == outcome'.hours
        reasons == ClosedReasons(WithDay(schedule, today), hours, now)
    IN  (/\ ops' = ops + 1
         /\ outcome'.kind \in SignupReplies
         /\ hours # <<>>
         /\ Len(reasons) = Len(hours))
        => /\ outcome'.kind = "all_closed"
           /\ outcome'.reasons = reasons
           /\ ApplicantLists(schedule') = ApplicantLists(WithDay(schedule, today))

(* C18: in each sign-up path (modal, slash command, message shortcut) a
   submission whose requested hours are all closed changes no applicant list
   and is answered "all requested hours closed" with the closing reason of
   every requested hour, an answer other than the one for hours already held *)
C18_AllClosedIsReported == [][C18_Step]_vars

-----------------------------------------------------------------------------
(* C19 *)

(* C19: after any sequence of register and update commands, the primary
   bonus of every registered member lies within the bounds 1.18 to 3.88 *)
C19_BonusWithinBounds ==
    \A u \in Users : members[u].registered => InBounds(members[u].bonus)

(* an update that left the registry as it was, or was answered with the
   input that failed *)
C19_Step ==
    (/\ ops' = ops + 1
     /\ outcome'.kind = "out_of_range")
    => /\ members' = members
       /\ outcome'.reasons # <<>>

(* a command answered "out of range" names the input and leaves the
   registry unchanged *)
C19_RejectionLeavesRegistry == [][C19_Step]_vars

-----------------------------------------------------------------------------
(* C20 *)

(* C20: for every hour label and current time, the slot start that
   is_signup_closed works with is the next occurrence of the hour: not before
   the current time and less than 24 hours after it *)
C20_NextOccurrence ==
    probe # NoSlot =>
        /\ probe.st >= now
        /\ probe.st < now + TicksPerDay

(* the half that holds: the slot start is less than 24 hours ahead and at
   most 12 hours back *)
C20_WithinWindow ==
    probe # NoSlot =>
        /\ probe.st >= now - RollBackHours * TicksPerHour
        /\ probe.st < now + TicksPerDay

-----------------------------------------------------------------------------
(* C21 *)

(* the place of applicant uid in sorted(applicants, key=sk) *)
PlaceOf(apps, uid) ==
    CHOOSE k \in 1..Len(apps) : SortApplicants(apps)[k].user_id = uid

(* C21: after an assignment, of two pusher candidates whose primary bonuses
   differ by less than 0.02, the one registered earlier is placed before the
   other by the sort *)
C21_WithinTwoHundredths ==
    ops = 1 => \A sl \in Slots :
        LET apps == schedule[sl[1]][sl[2]].applicants
        IN  \A i, j \in PusherIdx(apps) :
               ( /\ apps[i].bonus - apps[j].bonus < 2
                 /\ apps[j].bonus - apps[i].bonus < 2
                 /\ apps[i].registered_at < apps[j].registered_at )
               => PlaceOf(apps, apps[i].user_id) < PlaceOf(apps, apps[j].user_id)

(* what the sort does: candidates of one 1/50 bucket are placed in the
   order of their registration *)
C21_SameBucket ==
    ops = 1 => \A sl \in Slots :
        LET apps == schedule[sl[1]][sl[2]].applicants
        IN  \A i, j \in PusherIdx(apps) :
               ( /\ Bucket(apps[i]) = Bucket(apps[j])
                 /\ apps[i].registered_at < apps[j].registered_at )
               => PlaceOf(apps, apps[i].user_id) < PlaceOf(apps, apps[j].user_id)

-----------------------------------------------------------------------------
(* C22 *)

(* the alt-role applicants of apps, in the order of the list *)
AltsOf(apps) == SelectSeq(apps, IsS6)

(* C22: the alt occupant is the alt-role applicant that comes first in the
   slot's applicant list, shown with its alt bonus when that is greater than
   zero and with its primary bonus otherwise *)
C22_FirstAltOfTheList ==
    ops = 1 =>
      \A sl \in Slots :
        LET sh == schedule[sl[1]][sl[2]]
            alts == AltsOf(sh.applicants)
        IN  IF alts = <<>> THEN sh.p2 = None
            ELSE /\ sh.p2 # None
                 /\ sh.p2[1].user_id = alts[1].user_id
                 /\ sh.p2[1].bonus = IF alts[1].s6_bonus > 0 THEN alts[1].s6_bonus
                                     ELSE alts[1].bonus

(* what assign does: the alt occupant is the alt-role applicant that comes
   first in the sorted list, shown with its alt bonus when that is greater
   than zero and with its primary bonus otherwise *)
C22_FirstAltOfTheSort ==
    ops = 1 =>
      \A sl \in Slots :
        LET sh == schedule[sl[1]][sl[2]]
            alts == AltsOf(SortApplicants(sh.applicants))
        IN  IF alts = <<>> THEN sh.p2 = None
            ELSE /\ sh.p2 # None
                 /\ sh.p2[1].user_id = alts[1].user_id
                 /\ sh.p2[1].bonus = IF alts[1].s6_bonus > 0 THEN alts[1].s6_bonus
                                     ELSE alts[1].bonus

-----------------------------------------------------------------------------
(* C23 *)

C23_Step ==
    (/\ snap_result' \in {"skipped", "appended"}
     /\ chart' = chart
     /\ now' = now)
    => (snap_result' = "skipped"
          <=> \E k \in 1..Len(ranking_history.records) :
                 /\ ranking_history.records[k].time = HourOf(now)
                 /\ ranking_history.records[k].event = ranking_history'.event_name)

(* C23: an attempt to append a snapshot is skipped exactly when the store
   holds a snapshot of the same hour and the same label; an attempt for
   another label in an hour that has a snapshot is appended *)
C23_SkippedIffSameHourAndLabel == [][C23_Step]_vars

C23_HourStep ==
    (/\ snap_result' \in {"skipped", "appended"}
     /\ chart' = chart
     /\ now' = now)
    => (snap_result' = "skipped"
          <=> \E k \in 1..Len(ranking_history.records) :
                 ranking_history.records[k].time = HourOf(now))

(* what the code does: an attempt is skipped exactly when the store holds a
   snapshot of the same hour, whatever its label *)
C23_SkippedIffSameHour == [][C23_HourStep]_vars

-----------------------------------------------------------------------------
(* C24 *)

(* the repetitions of value v, summed over the terms of sol *)
RepetitionsOf(sol, v) ==
    SumOver({ k \in 1..Len(sol) : sol[k].score = v },
            [k \in 1..Len(sol) |-> sol[k].plays])

(* C24: in a solution no score value is repeated more than max_plays times
   over all terms, and the two terms of a two-term solution carry different
   values *)
C24_RepetitionsPerValue ==
    (solver_pc = "done" /\ solution # None) =>
        /\ \A v \in score_set(tbl) : RepetitionsOf(solution, v) <= max_plays
        /\ Len(solution) = 2 => solution[1].score # solution[2].score

-----------------------------------------------------------------------------
(* C25 *)

(* 3600 times the net point value of a plan: the point value itself when no
   border speed is known *)
NetOf(pl) ==
    IF border_speed > 0 THEN Net3600(pl.ep, pl.time + interval, border_speed)
    ELSE pl.ep * SecondsPerHour

(* n is the least integer with n * value >= goal *)
LeastCount(n, value, goal) ==
    /\ n * value >= goal
    /\ (n - 1) * value < goal

(* C25: for every plan returned, the repetitions are the least count whose
   points reach the gap, the adjusted repetitions are the least count whose
   net points reach the gap (the net being the point value when no border
   speed is known), so they are no fewer than the unadjusted ones, and the
   adjusted stamina is the adjusted repetitions times the tier's cost *)
C25_AdjustedCounts ==
    \A pl \in PlanSet :
        /\ LeastCount(pl.plays, pl.ep, target_ep_gap)
        /\ NetOf(pl) > 0 =>
              LeastCount(pl.adj_plays, NetOf(pl), target_ep_gap * SecondsPerHour)
        /\ pl.adj_plays >= pl.plays
        /\ pl.stamina = pl.plays * pl.energy
        /\ pl.adj_stamina = pl.adj_plays * pl.energy

(* a plan whose adjusted repetitions exceed the unadjusted ones *)
C25_Witness ==
    /\ push_pc = "done"
    /\ border_speed > 0
    /\ \E pl \in PlanSet :
          /\ NetOf(pl) > 0
          /\ pl.adj_plays > pl.plays
          /\ pl.adj_plays < NotCatchable

-----------------------------------------------------------------------------
(* C26 *)

ValidHours == 0..(HoursPerDay - 1)

(* the hours a, a+1, ... up to but excluding b, modulo 24, b wrapped past
   midnight when b <= a *)
HoursBetween(a, b) ==
    [i \in 1..(IF b <= a THEN b + HoursPerDay - a ELSE b - a) |-> (a + i - 1) % HoursPerDay]

(* C26: the hour list of a range text is non-empty only when both endpoints
   are hours 0..23, and is then the consecutive hours from a up to but
   excluding b modulo 24, every label within 0..23 and none repeated; a
   sign-up with any other text leaves the schedule as it was *)
C26_ValidRangesOnly ==
    \A k \in 1..Len(tasks) :
        LET rng == tasks[k].req.rng
            hours == HoursOf(rng)
        IN  /\ hours # <<>> =>
                 /\ rng[1] \in ValidHours /\ rng[2] \in ValidHours
                 /\ hours = HoursBetween(rng[1], rng[2])
                 /\ \A i \in 1..Len(hours) : hours[i] \in ValidHours
                 /\ \A i, j \in 1..Len(hours) : hours[i] = hours[j] => i = j
            /\ (hours = <<>> /\ tasks[k].pc # "dispatched") => schedule = tasks[k].seen

(* what holds: for endpoints that are hours 0..23 the list is the
   consecutive hours of the claim, and a text the pattern does not match
   leaves the schedule as it was *)
C26_ValidEndpoints ==
    \A k \in 1..Len(tasks) :
        LET rng == tasks[k].req.rng
            hours == HoursOf(rng)
        IN  /\ (rng[1] \in ValidHours /\ rng[2] \in ValidHours) =>
                 /\ hours = HoursBetween(rng[1], rng[2])
                 /\ \A i \in 1..Len(hours) : hours[i] \in ValidHours
                 /\ \A i, j \in 1..Len(hours) : hours[i] = hours[j] => i = j
            /\ (hours = <<>> /\ tasks[k].pc # "dispatched") => schedule = tasks[k].seen

-----------------------------------------------------------------------------
(* C27 *)

(* the orderings of the list apps *)
Orderings(apps) ==
    { [i \in 1..Len(apps) |-> apps[q[i]]] :
        q \in { f \in [1..Len(apps) -> 1..Len(apps)] :
                  \A i, j \in 1..Len(apps) : f[i] = f[j] => i = j } }

(* no two applicants share the 1/50 bucket and the registration time *)
DistinctKeys(apps) ==
    \A i, j \in 1..Len(apps) :
        (i # j) => ~(/\ Bucket(apps[i]) = Bucket(apps[j])
                     /\ apps[i].registered_at = apps[j].registered_at)

(* C27: when no two applicants of a slot share both the 1/50 bucket and the
   registration time, every ordering of the applicant list yields the same
   occupant in every role position *)
C27_OrderIndependent ==
    ops = 1 =>
      \A sl \in Slots :
        LET sh == schedule[sl[1]][sl[2]]
        IN  DistinctKeys(sh.applicants) =>
              \A other \in Orderings(sh.applicants) :
                 RolesOf(auto_assign_schedule(other)) = RolesOf(sh)

(* three applicants with distinct keys, stored in an order other than the
   sorted one, two of them pushers of one bucket *)
C27_Witness ==
    /\ ops = 1
    /\ \E sl \in Slots :
          LET sh == schedule[sl[1]][sl[2]]
          IN  /\ Len(sh.applicants) = 3
              /\ DistinctKeys(sh.applicants)
              /\ SortApplicants(sh.applicants) # sh.applicants
              /\ sh.p3 # None /\ sh.p4 # None
              /\ sh.p3[1].user_id # sh.p4[1].user_id
              /\ Bucket(sh.p3[1]) = Bucket(sh.p4[1])

-----------------------------------------------------------------------------
(* C28 *)

C28_Step ==
    (/\ HandlerRan
     /\ \E d \in DOMAIN schedule', h \in 0..23 :
           AppsOf(schedule', d, h) # AppsOf(schedule, d, h))
    => \A sl \in Slots :
          AppsOf(schedule', sl[1], sl[2]) = AppsOf(schedule, sl[1], sl[2])
            => RolesOf(schedule'[sl[1]][sl[2]]) = RolesOf(schedule[sl[1]][sl[2]])

(* C28: a sign-up or cancel that changes the applicant list of one hour
   leaves the role positions and avg_bonus of every other hour of the day as
   they were, positions set by a manual edit included *)
C28_OtherHoursUntouched == [][C28_Step]_vars

-----------------------------------------------------------------------------
(* C29 *)

C29_Step ==
    (HandlerRan /\ outcome'.kind = "registered")
    => \A d \in DOMAIN schedule', h \in 0..23 :
          Len(AppsOf(schedule', d, h)) > Len(AppsOf(schedule, d, h))
            => get_today(SlotStart(h, now)) = d

(* C29: when a sign-up for hour h is accepted, the slot start that the
   closing window worked with lies on the date under which the applicant is
   stored (and whose slot the window consulted for the alt position): an
   hour rolled to the next day is not stored under today *)
C29_StoredUnderSlotDate == [][C29_Step]_vars

-----------------------------------------------------------------------------
(* C30 *)

(* the uids on the alt position, on the support position and on the pusher
   positions of a shift *)
AltUids(sh) == IF sh.p2 = None THEN {} ELSE {sh.p2[1].user_id}
SupportUids(sh) == IF sh.support = None THEN {} ELSE {sh.support[1].user_id}
PusherUids(sh) == { u \in 1..MaxPool : OccIdx(sh, u) # {} }

(* the uids of the applicants of apps that satisfy the role test *)
UidsOfRole(apps, r) ==
    { apps[i].user_id : i \in { j \in 1..Len(apps) : apps[j].role = r } }

(* C30: in an assignment every applicant occupies positions of its declared
   role only: the alt position holds one alt applicant, the support position
   one support applicant, the pusher positions pushers only; the other alt
   and support applicants occupy nothing, and nobody occupies positions of
   two roles *)
C30_DeclaredRoleOnly ==
    ops = 1 =>
      \A sl \in Slots :
        LET sh == schedule[sl[1]][sl[2]]
            apps == sh.applicants
        IN  /\ AltUids(sh) \subseteq UidsOfRole(apps, "s6")
            /\ SupportUids(sh) \subseteq UidsOfRole(apps, "support")
            /\ PusherUids(sh) \subseteq UidsOfRole(apps, "pusher")
            /\ AltUids(sh) \cap SupportUids(sh) = {}
            /\ AltUids(sh) \cap PusherUids(sh) = {}
            /\ SupportUids(sh) \cap PusherUids(sh) = {}
            /\ Cardinality(AltUids(sh)) <= 1
            /\ Cardinality(SupportUids(sh)) <= 1

(* two alt applicants and no pusher: one holds the alt position, the other
   holds nothing and the pusher positions are empty *)
C30_Witness ==
    /\ ops = 1
    /\ \E sl \in Slots :
          LET sh == schedule[sl[1]][sl[2]]
          IN  /\ Cardinality(UidsOfRole(sh.applicants, "s6")) = 2
              /\ UidsOfRole(sh.applicants, "pusher") = {}
              /\ sh.p2 # None
              /\ sh.p3 = None /\ sh.p4 = None /\ sh.p5 = None

====
